---- MODULE Spec2Model ----
(***************************************************************************)
(* Model of the rreading-glasses controller: the coalescing read-through  *)
(* cache (GetBook / GetWork / GetAuthor behind a singleflight group), the  *)
(* background author and work refresh tasks, the edge buffer and the       *)
(* denormalization loop (Run, denormalizeEditions, denormalizeWorks).      *)
(*                                                                         *)
(* Documents are modelled by their structure: a work resource is its       *)
(* foreign ID, the foreign IDs of its books and of its authors; an author  *)
(* resource is its foreign ID and its works.  Serialised bytes carry one   *)
(* extra bit, nl, the trailing newline the streaming encoder appends and   *)
(* json.Marshal does not, so that byte equality (the ETag test) is not     *)
(* structural equality.                                                    *)
(***************************************************************************)
EXTENDS Integers, Sequences, FiniteSets, TLC

(***************************************************************************)
(* Bounds of the model.                                                    *)
(***************************************************************************)
MaxBook == 3
MaxWork == 2
MaxClients == 2
MaxTasks == 2
MaxReq == 1
MaxRepeat == 2
MaxEdges == 2
MaxFail == 2
MaxExpire == 1
MaxReads == 2
MaxAuthor == 3
MaxClock == 3
MaxOps == 5
MaxTitled == 3
MaxSeries == 2
MaxGets == 3
MaxYield == 1003
MaxSkips == 1
MaxSent == 4

BookIDs == 1..MaxBook
WorkIDs == 1..MaxWork
ClientIDs == 1..MaxClients
TaskIDs == (MaxClients + 1)..(MaxClients + MaxTasks)
Procs == ClientIDs \cup TaskIDs

(***************************************************************************)
(* Program constants (hours).                                              *)
(***************************************************************************)
authorTTL == 168
workTTL == 336
editionTTL == 672
missingTTL == 168
refreshingTTL == 8760
hourTTL == 1
seriesTTL == 336

\* The author of the modelled catalogue, and one denylisted author.
AuthorIDs == {1}
\* The authors whose refreshes the persister records, when checked on its own.
RefreshIDs == 1..MaxAuthor
DenyAuthors == {22294257}

unknownAuthor(authorID) == authorID \in DenyAuthors

\* fuzz scales d by a factor drawn from [1, fnum/fden); the draw is 1.
fuzz(d, fnum, fden) == {d}

(***************************************************************************)
(* Documents and bytes.                                                    *)
(***************************************************************************)
Rsc(kind, id, books, authors, works, nl) ==
    [kind |-> kind, id |-> id, books |-> books, authors |-> authors,
     works |-> works, nl |-> nl]

\* nil bytes (len 0), and the _missing sentinel []byte{0}.
NilBytes == Rsc("nil", 0, <<>>, <<>>, <<>>, FALSE)
Missing == Rsc("missing", 0, <<>>, <<>>, <<>>, FALSE)

\* json.Marshal: no trailing newline.
Marshal(r) == [r EXCEPT !.nl = FALSE]
\* Encoder.Encode: the value followed by a newline.
Encode(r) == [r EXCEPT !.nl = TRUE]
\* Decoding succeeds on JSON documents only; the struct has no newline.
Decodable(b) == b.kind \in {"work", "author"}
Decode(b) == [b EXCEPT !.nl = FALSE]
\* The ETag of a byte sequence identifies the bytes.
ETag(b) == b

(***************************************************************************)
(* The upstream catalogue.  canon[b] is the edition upstream answers with  *)
(* for edition b (b itself unless b was merged), workOf its work and best  *)
(* the best edition of a work.                                             *)
(***************************************************************************)
WorldPlain ==
    [canon |-> [b \in BookIDs |-> b],
     workOf |-> [b \in BookIDs |-> IF b = MaxBook THEN 2 ELSE 1],
     best |-> [w \in WorkIDs |-> IF w = 1 THEN 1 ELSE MaxBook]]
WorldMergedEdition ==
    [canon |-> [b \in BookIDs |-> IF b = 2 THEN 1 ELSE b],
     workOf |-> [b \in BookIDs |-> IF b = MaxBook THEN 2 ELSE 1],
     best |-> [w \in WorkIDs |-> IF w = 1 THEN 1 ELSE MaxBook]]
WorldMergedWork ==
    [canon |-> [b \in BookIDs |-> b],
     workOf |-> [b \in BookIDs |-> 1],
     best |-> [w \in WorkIDs |-> 1]]
Worlds == {WorldPlain, WorldMergedEdition, WorldMergedWork}

\* What upstream answers: fine, 404, or a transient failure (429).
Outcomes == {"ok", "notfound", "ratelimited"}

\* What upstream answers for edition b: a work wrapping the one edition.
UpBook(up, b) ==
    Rsc("work", up.workOf[up.canon[b]], <<up.canon[b]>>, <<1>>, <<>>, FALSE)

\* The best editions of the author's works, in upstream order.
UpAuthorBooks(up, a) ==
    IF up.best[1] = up.best[MaxWork] THEN <<up.best[1]>>
    ELSE <<up.best[1], up.best[MaxWork]>>

(***************************************************************************)
(* The cache: string keys to bytes with a remaining TTL.  An entry whose   *)
(* TTL ran out stays readable with ttl = 0.                                *)
(***************************************************************************)
AuthorKey(id) == <<"a", id>>
WorkKey(id) == <<"w", id>>
BookKey(id) == <<"b", id>>
refreshAuthorKey(id) == <<"ra", id>>

Keys == {AuthorKey(a) : a \in AuthorIDs} \cup {refreshAuthorKey(a) : a \in AuthorIDs}
        \cup {WorkKey(w) : w \in WorkIDs} \cup {BookKey(b) : b \in BookIDs}

NoEntry == [ok |-> FALSE, val |-> NilBytes, ttl |-> 0]
EmptyCache == [k \in Keys |-> NoEntry]

CacheGet(c, k) == c[k]
CacheSet(c, k, bytes, ttl) == [c EXCEPT ![k] = [ok |-> TRUE, val |-> bytes, ttl |-> ttl]]
CacheExpire(c, k) == IF c[k].ok THEN [c EXCEPT ![k].ttl = 0] ELSE c
CacheDelete(c, k) == [c EXCEPT ![k] = NoEntry]
Live(c, k) == c[k].ok /\ c[k].ttl > 0

(***************************************************************************)
(* The Getter (GRGetter).  It reads the cache before it goes upstream and, *)
(* for a best edition, seeds the work entry afterwards.  seen is the cache *)
(* as it was when the call began (what the Getter's own lookup found), c   *)
(* the cache when upstream has answered (what it writes to), and o what    *)
(* upstream answers, per edition, work and author.                         *)
(***************************************************************************)
GetterResult(c, bytes, workID, authorID, err) ==
    [c |-> c, bytes |-> bytes, workID |-> workID, authorID |-> authorID, err |-> err]

GetterGetBook(c, seen, up, o, bookID) ==
    IF Live(seen, BookKey(bookID))
    THEN GetterResult(c, seen[BookKey(bookID)].val, 0, 0, "nil")
    ELSE IF o.book[bookID] # "ok"
    THEN GetterResult(c, NilBytes, 0, 0, o.book[bookID])
    ELSE LET out == UpBook(up, bookID)
             seed == ~c[WorkKey(out.id)].ok /\ up.best[out.id] = bookID
         IN GetterResult(IF seed THEN CacheSet(c, WorkKey(out.id), out, workTTL) ELSE c,
                         out, out.id, out.authors[1], "nil")

GetterGetWork(c, seen, up, o, workID) ==
    IF Live(seen, WorkKey(workID))
    THEN GetterResult(c, seen[WorkKey(workID)].val, 0, 0, "nil")
    ELSE IF seen[WorkKey(workID)].ok /\ Decodable(seen[WorkKey(workID)].val)
    THEN \* an expired copy names its best edition
         GetterGetBook(c, seen, up, o, up.best[workID])
    ELSE IF o.work[workID] # "ok"
    THEN GetterResult(c, NilBytes, 0, 0, o.work[workID])
    ELSE GetterGetBook(c, seen, up, o, up.best[workID])

\* GetAuthor loads best editions until one names the author, and answers
\* with the author seeded with that one work.
RECURSIVE GetterAuthorLoop(_, _, _, _, _, _)
GetterAuthorLoop(c, seen, up, o, authorID, ids) ==
    IF ids = <<>> THEN GetterResult(c, NilBytes, 0, 0, "notfound")
    ELSE LET r == GetterGetBook(c, seen, up, o, Head(ids))
         IN IF r.err # "nil" THEN GetterAuthorLoop(r.c, seen, up, o, authorID, Tail(ids))
            ELSE IF ~Decodable(r.bytes)
            THEN GetterAuthorLoop(CacheExpire(r.c, BookKey(Head(ids))), seen, up, o,
                                  authorID, Tail(ids))
            ELSE IF \E i \in 1..Len(r.bytes.authors) : r.bytes.authors[i] = authorID
            THEN GetterResult(r.c,
                     Marshal(Rsc("author", authorID, <<>>, <<>>, <<Decode(r.bytes)>>, FALSE)),
                     0, authorID, "nil")
            ELSE GetterAuthorLoop(r.c, seen, up, o, authorID, Tail(ids))

GetterGetAuthor(c, seen, up, o, authorID) ==
    IF o.author # "ok" THEN GetterResult(c, NilBytes, 0, 0, o.author)
    ELSE GetterAuthorLoop(c, seen, up, o, authorID, UpAuthorBooks(up, authorID))

(***************************************************************************)
(* slices.BinarySearchFunc over the foreign IDs of a list, slices.Insert.  *)
(***************************************************************************)
RECURSIVE BinarySearchFrom(_, _, _, _)
BinarySearchFrom(ids, target, i, j) ==
    IF i < j
    THEN LET h == (i + j) \div 2
         IN IF ids[h + 1] < target THEN BinarySearchFrom(ids, target, h + 1, j)
            ELSE BinarySearchFrom(ids, target, i, h)
    ELSE i

\* (Variant: a search that never finds.)
BinarySearchBlind(ids, target) ==
    [idx |-> BinarySearchFrom(ids, target, 0, Len(ids)), found |-> FALSE]

\* idx is 0-based, as in Go.
BinarySearch(ids, target) ==
    LET i == BinarySearchFrom(ids, target, 0, Len(ids))
    IN [idx |-> i, found |-> i < Len(ids) /\ ids[i + 1] = target]

\* (Variant: the new element goes to the end.)
InsertLast(s, idx, x) == Append(s, x)

Insert(s, idx, x) == SubSeq(s, 1, idx) \o <<x>> \o SubSeq(s, idx + 1, Len(s))
Replace(s, idx, x) == [s EXCEPT ![idx + 1] = x]

IDsOf(rs) == [i \in 1..Len(rs) |-> rs[i].id]

(***************************************************************************)
(* denormalizeEditions: the loop over bookIDs, then the ETag test and the  *)
(* cache write.  st is [c, books]: the cache and work.Books so far.        *)
(***************************************************************************)
\* (Variant: the edition is filed under the ID that was asked for.)
EnsureEditionAsAsked(st, up, o, bookID) ==
    LET r == GetterGetBook(st.c, st.c, up, o, bookID)
        at == BinarySearch(st.books, bookID)
    IN IF r.err # "nil" THEN [st EXCEPT !.c = r.c]
       ELSE IF ~Decodable(r.bytes)
       THEN [st EXCEPT !.c = CacheExpire(r.c, BookKey(bookID))]
       ELSE [c |-> r.c,
             books |-> IF at.found THEN st.books ELSE Insert(st.books, at.idx, bookID)]

EnsureEdition(st, up, o, bookID) ==
    LET r == GetterGetBook(st.c, st.c, up, o, bookID)
    IN IF r.err # "nil" THEN [st EXCEPT !.c = r.c]
       ELSE IF ~Decodable(r.bytes)
       THEN [st EXCEPT !.c = CacheExpire(r.c, BookKey(bookID))]
       ELSE IF Len(r.bytes.books) # 1 THEN [st EXCEPT !.c = r.c]
       ELSE LET id == r.bytes.books[1]
                at == BinarySearch(st.books, id)
            IN [c |-> r.c,
                books |-> IF at.found THEN Replace(st.books, at.idx, id)
                          ELSE Insert(st.books, at.idx, id)]

RECURSIVE EnsureEditions(_, _, _, _)
EnsureEditions(st, up, o, bookIDs) ==
    IF bookIDs = <<>> THEN st
    ELSE EnsureEditions(EnsureEdition(st, up, o, Head(bookIDs)), up, o, Tail(bookIDs))

\* The outcome: the cache, the error, what the ETag comparison found ("match",
\* "mismatch", or "none" if it was not reached), and the authors an
\* authorEdge is owed to.
DenormResult(c, err, etag, authors) ==
    [c |-> c, err |-> err, etag |-> etag, authors |-> authors]

\* (Variant: the work is written whatever the ETags say.)
denormalizeEditionsAlways(c, up, o, ttl, workID, bookIDs) ==
    LET g == GetterGetWork(c, c, up, o, workID)
    IN IF bookIDs = <<>> \/ g.err # "nil" \/ ~Decodable(g.bytes)
       THEN DenormResult(c, "err", "none", <<>>)
       ELSE LET work == Decode(g.bytes)
                st == EnsureEditions([c |-> g.c, books |-> work.books], up, o, bookIDs)
            IN DenormResult(CacheSet(st.c, WorkKey(workID),
                                     Encode([work EXCEPT !.books = st.books]), ttl),
                            "nil", "mismatch", work.authors)

\* (Variant: a work that cannot be loaded is begun afresh.)
denormalizeEditionsAfresh(c, up, o, ttl, workID, bookIDs) ==
    IF bookIDs = <<>> THEN DenormResult(c, "nil", "none", <<>>)
    ELSE LET g == GetterGetWork(c, c, up, o, workID)
         IN IF g.err # "nil"
            THEN DenormResult(CacheSet(g.c, WorkKey(workID),
                                       Encode(Rsc("work", workID, <<>>, <<1>>, <<>>, FALSE)),
                                       ttl),
                              "nil", "mismatch", <<1>>)
            ELSE IF ~Decodable(g.bytes)
            THEN DenormResult(CacheExpire(g.c, WorkKey(workID)), "err", "none", <<>>)
            ELSE LET work == Decode(g.bytes)
                     st == EnsureEditions([c |-> g.c, books |-> work.books], up, o, bookIDs)
                     out == Encode([work EXCEPT !.books = st.books])
                 IN IF ETag(out) = ETag(g.bytes)
                    THEN DenormResult(st.c, "nil", "match", <<>>)
                    ELSE DenormResult(CacheSet(st.c, WorkKey(workID), out, ttl),
                                      "nil", "mismatch", work.authors)

denormalizeEditions(c, up, o, ttl, workID, bookIDs) ==
    IF bookIDs = <<>> THEN DenormResult(c, "nil", "none", <<>>)
    ELSE LET g == GetterGetWork(c, c, up, o, workID)
         IN IF g.err # "nil" THEN DenormResult(g.c, g.err, "none", <<>>)
            ELSE IF ~Decodable(g.bytes)
            THEN DenormResult(CacheExpire(g.c, WorkKey(workID)), "err", "none", <<>>)
            ELSE LET work == Decode(g.bytes)
                     st == EnsureEditions([c |-> g.c, books |-> work.books], up, o, bookIDs)
                     out == Encode([work EXCEPT !.books = st.books])
                 IN IF ETag(out) = ETag(g.bytes)
                    THEN DenormResult(st.c, "nil", "match", <<>>)
                    ELSE DenormResult(CacheSet(st.c, WorkKey(workID), out, ttl),
                                      "nil", "mismatch", work.authors)

(***************************************************************************)
(* denormalizeWorks, after the author bytes were loaded through GetAuthor. *)
(* st is [c, works]: the cache and author.Works so far.                    *)
(***************************************************************************)
EnsureWork(st, up, o, workID) ==
    LET r == GetterGetWork(st.c, st.c, up, o, workID)
    IN IF r.err # "nil" THEN [st EXCEPT !.c = r.c]
       ELSE IF ~Decodable(r.bytes)
       THEN [st EXCEPT !.c = CacheExpire(r.c, WorkKey(workID))]
       ELSE LET work == Decode(r.bytes)
                at == BinarySearch(IDsOf(st.works), work.id)
            IN IF Len(work.books) = 0 THEN [st EXCEPT !.c = r.c]
               ELSE [c |-> r.c,
                     works |-> IF at.found THEN Replace(st.works, at.idx, work)
                               ELSE Insert(st.works, at.idx, work)]

RECURSIVE EnsureWorks(_, _, _, _)
EnsureWorks(st, up, o, workIDs) ==
    IF workIDs = <<>> THEN st
    ELSE EnsureWorks(EnsureWork(st, up, o, Head(workIDs)), up, o, Tail(workIDs))

denormalizeWorks(c, up, o, ttl, authorID, authorBytes, workIDs) ==
    IF ~Decodable(authorBytes)
    THEN DenormResult(CacheExpire(c, AuthorKey(authorID)), "err", "none", <<>>)
    ELSE LET author == Decode(authorBytes)
             st == EnsureWorks([c |-> c, works |-> author.works], up, o, workIDs)
             out == Encode([author EXCEPT !.works = st.works])
         IN IF ETag(out) = ETag(authorBytes)
            THEN DenormResult(st.c, "nil", "match", <<>>)
            ELSE DenormResult(CacheSet(st.c, AuthorKey(authorID), out, ttl),
                              "nil", "mismatch", <<>>)

(***************************************************************************)
(* The persister: the real one keeps the snapshot under ra<id>, the        *)
(* no-op one (a nil persister) keeps nothing.                              *)
(***************************************************************************)
Persist(c, real, authorID, bytes) ==
    IF real THEN CacheSet(c, refreshAuthorKey(authorID), bytes, refreshingTTL) ELSE c
PersistDelete(c, real, authorID) ==
    IF real THEN CacheDelete(c, refreshAuthorKey(authorID)) ELSE c

\* The rows of the cache table under ra<id>.  Persist upserts the row with
\* an expiry a year from now, Delete removes it.
Expires(t, ttl) == t + ttl
PersistRow(rs, t, authorID) == [rs EXCEPT ![authorID] = Expires(t, refreshingTTL)]
DeleteRow(rs, authorID) == [rs EXCEPT ![authorID] = 0]

\* A finite set of numbers in ascending order (slices.Sorted).
RECURSIVE Sorted(_)
Sorted(S) ==
    IF S = {} THEN <<>>
    ELSE LET lo == CHOOSE x \in S : \A y \in S : x <= y
         IN <<lo>> \o Sorted(S \ {lo})

\* Persisted: every row goes into the map m under its expiry, m[expires] =
\* authorID, in whatever order the query yields the rows; the IDs are then
\* read out by ascending key.  Every outcome the row order allows.
Persisted(rs) ==
    LET stamps == {rs[a] : a \in {a \in RefreshIDs : rs[a] # 0}}
        keys == Sorted(stamps)
    IN {[i \in 1..Len(keys) |-> m[keys[i]]] :
           m \in {m \in [stamps -> RefreshIDs] : \A t \in stamps : rs[m[t]] = t}}

(***************************************************************************)
(* Edges and the edge buffer.                                              *)
(***************************************************************************)
Edge(kind, parentID, childIDs) ==
    [kind |-> kind, parentID |-> parentID, childIDs |-> childIDs]
NoEdge == Edge("none", 0, {})

\* The position in the queue of the pending edge of e's kind and parent
\* (b.authors / b.works), 0 if there is none.
Existing(q, e) ==
    IF e.kind = "refreshDone" THEN 0
    ELSE LET at == {i \in 1..Len(q) : q[i].kind = e.kind /\ q[i].parentID = e.parentID}
         IN IF at = {} THEN 0 ELSE CHOOSE i \in at : TRUE

\* (Variant: every edge gets a queue entry of its own.)
pushApart(q, e) ==
    [queue |-> Append(q, e), added |-> Cardinality(e.childIDs)]

\* (Variant: an entry that takes more children moves to the back.)
pushMoving(q, e) ==
    LET i == Existing(q, e)
    IN IF i > 0
       THEN LET combined == q[i].childIDs \cup e.childIDs
            IN [queue |-> Append(SubSeq(q, 1, i - 1) \o SubSeq(q, i + 1, Len(q)),
                                 [q[i] EXCEPT !.childIDs = combined]),
                added |-> Cardinality(combined) - Cardinality(q[i].childIDs)]
       ELSE [queue |-> Append(q, e), added |-> Cardinality(e.childIDs)]

\* (Variant: every child pushed counts as added.)
pushCounting(q, e) ==
    LET i == Existing(q, e)
    IN IF i > 0
       THEN [queue |-> [q EXCEPT ![i].childIDs = q[i].childIDs \cup e.childIDs],
             added |-> Cardinality(e.childIDs)]
       ELSE [queue |-> Append(q, e), added |-> Cardinality(e.childIDs)]

\* push: the queue afterwards and the number of children added.
push(q, e) ==
    LET i == Existing(q, e)
    IN IF i > 0
       THEN LET combined == q[i].childIDs \cup e.childIDs
            IN [queue |-> [q EXCEPT ![i].childIDs = combined],
                added |-> Cardinality(combined) - Cardinality(q[i].childIDs)]
       ELSE [queue |-> Append(q, e), added |-> Cardinality(e.childIDs)]

\* (Variant: a closed buffer yields nothing more.)
popClosed(q, isClosed) ==
    IF ~isClosed /\ q = <<>> THEN [wait |-> TRUE, ok |-> FALSE, edge |-> NoEdge, queue |-> q]
    ELSE IF isClosed \/ q = <<>>
    THEN [wait |-> FALSE, ok |-> FALSE, edge |-> NoEdge, queue |-> q]
    ELSE [wait |-> FALSE, ok |-> TRUE, edge |-> Head(q), queue |-> Tail(q)]

\* pop: it waits while the queue is empty and the buffer open; it returns
\* false from an empty closed buffer, and the head of the queue otherwise.
pop(q, isClosed) ==
    IF q = <<>> /\ ~isClosed
    THEN [wait |-> TRUE, ok |-> FALSE, edge |-> NoEdge, queue |-> q]
    ELSE IF q = <<>>
    THEN [wait |-> FALSE, ok |-> FALSE, edge |-> NoEdge, queue |-> q]
    ELSE [wait |-> FALSE, ok |-> TRUE, edge |-> Head(q), queue |-> Tail(q)]

\* All orders in which a set can be ranged over.
RECURSIVE Orders(_)
Orders(S) ==
    IF S = {} THEN {<<>>}
    ELSE UNION {{<<x>> \o t : t \in Orders(S \ {x})} : x \in S}

(***************************************************************************)
(* State.                                                                  *)
(*   up             the upstream catalogue                                 *)
(*   persister      TRUE for a real Persister, FALSE for nopersist         *)
(*   cache          the key-value store                                    *)
(*   flights        the singleflight group: per key, whether a call is in  *)
(*                  flight, and what its cache lookups found               *)
(*   tasks          the goroutines: client requests and background tasks   *)
(*   queue          edgebuf.queue                                          *)
(*   run            the denormalization loop: its position and edge        *)
(*   denormWaiting, refreshWaiting   the two gauges                        *)
(*   nreq, nfail, nexp   requests made, upstream failures, expiries        *)
(*   fed            the parent whose edges are fed in from outside, if any *)
(*   gone           the request contexts that were cancelled               *)
(***************************************************************************)
VARIABLES up, persister, cache, flights, tasks, queue, run,
          denormWaiting, refreshWaiting, nreq, nfail, nexp, fed, gone

(***************************************************************************)
(* State of the parts that are also checked on their own.                  *)
(*   closed, size   edgebuf.closed; edgebuf.size, the children pending     *)
(*   denormC        the channel the edges come in by: open or closed       *)
(*   ops            what went into and came out of the buffer, in order    *)
(*   ended          the grouped edge sequence has ended                    *)
(*   rows, now      the ra rows of the cache table (the expiry of each, 0  *)
(*                  for no row), and the clock                             *)
(*   resumed        NewController's recovery goroutine: whether it has run *)
(*                  and what Persisted() returned to it                    *)
(*   refreshes      the authors of the refresh tasks submitted and not     *)
(*                  yet finished                                           *)
(*   lib            the works as the Getter serves them, with their titles *)
(*   merged, authorWorks   author.Works in denormalizeWorks before the     *)
(*                  titles are disambiguated, and as encoded at the end    *)
(*   recs           a Recommendations call: its goroutines and its slices  *)
(*   shelf          the series entry of the cache and the GetSeries calls  *)
(*   fetch          the loop of one refreshAuthor over GetAuthorBooks      *)
(*   pipe           accumulate: its two channels and its buffer            *)
(*   order          the edge buffer as one refresh's last goroutine, other *)
(*                  goroutines and the loop use it                         *)
(*   save           saveEditions: its editions, its writes and its edge    *)
(*   group          the singleflight group: its flights and its callers    *)
(*   gauge          the grouper at the grain of its statements             *)
(***************************************************************************)
VARIABLES closed, size, denormC, ops, ended, rows, now, resumed, refreshes,
          lib, merged, authorWorks, recs, shelf, fetch, pipe, order,
          save,
          group,
          gauge

bufferVars == <<closed, size, denormC, ops, ended>>
persistVars == <<rows, now, resumed, refreshes>>
titleVars == <<lib, merged, authorWorks>>
lab == <<recs, shelf, fetch, pipe, order, save, group, gauge>>
apart == <<bufferVars, persistVars, titleVars, lab>>

vars == <<up, persister, cache, flights, tasks, queue, run,
          denormWaiting, refreshWaiting, nreq, nfail, nexp, fed, gone, apart>>

\* The service's own state but for the edge queue.
service == <<up, persister, cache, flights, tasks, run, refreshWaiting,
             nreq, nfail, nexp, fed, gone>>

\* All of it but recs, shelf, fetch and pipe.
main == <<service, queue, denormWaiting, bufferVars, persistVars, titleVars>>

FlightKeys == {AuthorKey(a) : a \in AuthorIDs} \cup {WorkKey(w) : w \in WorkIDs}
              \cup {BookKey(b) : b \in BookIDs}
NoKey == <<"none", 0>>

ttlpair(bytes, ttl, err) == [bytes |-> bytes, ttl |-> ttl, err |-> err]
NoRet == ttlpair(NilBytes, 0, "nil")

\* What a flight on k keeps of the cache it read: its own entry, and the
\* edition entries the Getter looks up.
Snapshot(c, k) ==
    [x \in {x \in Keys : x = k \/ (x[1] = "b" /\ k[1] # "b")} |-> c[x]]
NoFlight == [on |-> FALSE, seen |-> <<>>, ctx |-> 0]
\* cachedBytes: the expired bytes the flight's read found, nil if none.
Stale(f, k) == IF f.seen[k].ok THEN f.seen[k].val ELSE NilBytes

\* Contexts: context.Background() is 0, the context of client p's request is
\* p.
Background == 0

\* A goroutine: what it is, where it stands, the key of the call it makes or
\* waits on and that call's result, and its locals (subj: the book, work or
\* author it is about; wid, aid: the work and author it goes on to; todo,
\* acc, n: the loop it runs; edges: what it has left to enqueue; ctx: the
\* context it passes on).
FreeTask ==
    [kind |-> "free", pc |-> "none", key |-> NoKey, ret |-> NoRet, subj |-> 0,
     wid |-> 0, aid |-> 0, todo |-> <<>>, acc |-> {}, n |-> 0, edges |-> <<>>,
     phase |-> "none", ctx |-> 0]

\* The loop at pop.  It remembers the edge it processed last, what the ETag
\* comparison found for it (the etagMatches / etagMismatches metrics) and,
\* in ret, the error the denormalizer returned (which Run logs).
Idle == [pc |-> "idle", edge |-> NoEdge, ret |-> NoRet, tries |-> 0, etag |-> "none"]

\* Upstream answers during one step: all fine, or one failure.
AllOk == [book |-> [b \in BookIDs |-> "ok"], work |-> [w \in WorkIDs |-> "ok"],
          author |-> "ok"]
Failures(bs, ws, au) ==
    {[AllOk EXCEPT !.book[b] = x] : b \in bs, x \in Outcomes \ {"ok"}}
    \cup {[AllOk EXCEPT !.work[w] = x] : w \in ws, x \in Outcomes \ {"ok"}}
    \cup (IF au THEN {[AllOk EXCEPT !.author = x] : x \in Outcomes \ {"ok"}} ELSE {})
\* A call made with a cancelled context fails whatever upstream would say.
Canceled == [book |-> [b \in BookIDs |-> "canceled"],
             work |-> [w \in WorkIDs |-> "canceled"], author |-> "canceled"]
\* What a failure takes from the failure budget MaxFail: an author load that
\* fails 1, a book or work load that fails 2.
Cost(o) ==
    IF o = AllOk \/ o = Canceled THEN 0 ELSE IF o.author # "ok" THEN 1 ELSE 2
Oracles(bs, ws, au) ==
    {AllOk} \cup {o \in Failures(bs, ws, au) : nfail + Cost(o) <= MaxFail}

\* What the Getter is answered when called with the context ctx.
Answers(ctx, os) == IF ctx \in gone THEN {Canceled} ELSE os

\* A controller just constructed, on an empty cache.
Fresh ==
    /\ cache = EmptyCache
    /\ flights = [k \in FlightKeys |-> NoFlight]
    /\ tasks = [p \in Procs |-> FreeTask]
    /\ queue = <<>>
    /\ run = Idle
    /\ denormWaiting = 0
    /\ refreshWaiting = 0
    /\ nreq = 0
    /\ nfail = 0
    /\ nexp = 0
    /\ gone = {}

\* The recovery goroutine of a controller just constructed.
Booting == [pc |-> "recover", ids |-> <<>>]

\* No Recommendations call, an empty series entry, no refresh loop, no
\* accumulate.
NoRecs == [pc |-> "none"]
NoShelf == [pc |-> "none"]
NoFetch == [pc |-> "none"]
NoPipe == [pc |-> "none"]
NoOrder == [pc |-> "none"]
NoSave == [pc |-> "none"]
NoGroup == [pc |-> "none"]
NoGauge == [pc |-> "none"]

\* The parts checked on their own, at rest.
BufferAtRest ==
    /\ closed = FALSE
    /\ size = 0
    /\ denormC = "open"
    /\ ops = <<>>
    /\ ended = FALSE
PersisterAtRest ==
    /\ rows = [a \in RefreshIDs |-> 0]
    /\ now = 1
    /\ resumed = Booting
    /\ refreshes = <<>>
TitlesAtRest ==
    /\ lib = <<>>
    /\ merged = <<>>
    /\ authorWorks = <<>>
LabAtRest ==
    /\ recs = NoRecs
    /\ shelf = NoShelf
    /\ fetch = NoFetch
    /\ pipe = NoPipe
    /\ order = NoOrder
    /\ save = NoSave
    /\ group = NoGroup
    /\ gauge = NoGauge
Aside == BufferAtRest /\ PersisterAtRest /\ TitlesAtRest /\ LabAtRest

Init ==
    /\ up \in Worlds
    /\ persister \in BOOLEAN
    /\ fed = NoEdge
    /\ Fresh
    /\ Aside

\* The service as deployed: a real persister.
InitReal ==
    /\ up \in Worlds
    /\ persister = TRUE
    /\ fed = NoEdge
    /\ Fresh
    /\ Aside

(***************************************************************************)
(* The read path inside the singleflight: the cache read of getBook,       *)
(* getWork and getAuthor up to "Cache miss".                               *)
(***************************************************************************)
Hit(ret) == [hit |-> TRUE, ret |-> ret]
Miss == [hit |-> FALSE, ret |-> NoRet]

\* (Variant: a read that does not know the sentinel.)
readThroughRaw(c, k) ==
    LET e == c[k]
    IN IF e.ok /\ e.ttl > 0 THEN Hit(ttlpair(e.val, e.ttl, "nil")) ELSE Miss

readThrough(c, k) ==
    LET e == c[k]
    IN IF e.ok /\ e.ttl > 0
       THEN IF e.val = Missing THEN Hit(ttlpair(NilBytes, 0, "notfound"))
            ELSE Hit(ttlpair(e.val, e.ttl, "nil"))
       ELSE Miss

readAuthor(c, authorID) ==
    LET pre == c[refreshAuthorKey(authorID)]
    IN IF pre.ok
       THEN IF pre.val = Missing THEN Hit(ttlpair(NilBytes, 0, "notfound"))
            ELSE Hit(ttlpair(pre.val, hourTTL, "nil"))
       ELSE readThrough(c, AuthorKey(authorID))

readPath(c, k) == IF k[1] = "a" THEN readAuthor(c, k[2]) ELSE readThrough(c, k)

\* (Variant: the denylist answers without a TTL.)
DoNoTTL(c, fl, k, ctx) ==
    IF k[1] = "a" /\ unknownAuthor(k[2])
    THEN [now |-> TRUE, ret |-> ttlpair(NilBytes, 0, "notfound"), fl |-> fl]
    ELSE IF fl[k].on THEN [now |-> FALSE, ret |-> NoRet, fl |-> fl]
    ELSE LET r == readPath(c, k)
         IN IF r.hit THEN [now |-> TRUE, ret |-> r.ret, fl |-> fl]
            ELSE [now |-> FALSE, ret |-> NoRet,
                  fl |-> [fl EXCEPT ![k] = [on |-> TRUE, seen |-> Snapshot(c, k),
                                             ctx |-> ctx]]]

\* GetBook / GetWork / GetAuthor up to the result of group.Do, as seen by one
\* caller: an answer straight away (the denylist, or a cache hit), or a wait
\* for the flight it joined or started.
Do(c, fl, k, ctx) ==
    IF k[1] = "a" /\ unknownAuthor(k[2])
    THEN [now |-> TRUE, ret |-> ttlpair(NilBytes, missingTTL, "notfound"), fl |-> fl]
    ELSE IF fl[k].on THEN [now |-> FALSE, ret |-> NoRet, fl |-> fl]
    ELSE LET r == readPath(c, k)
         IN IF r.hit THEN [now |-> TRUE, ret |-> r.ret, fl |-> fl]
            ELSE [now |-> FALSE, ret |-> NoRet,
                  fl |-> [fl EXCEPT ![k] = [on |-> TRUE, seen |-> Snapshot(c, k),
                                             ctx |-> ctx]]]

\* A goroutine whose work is to enqueue edges, in order.
Enqueuer(edges) ==
    IF edges = <<>> THEN FreeTask
    ELSE [FreeTask EXCEPT !.kind = "enqueue", !.pc = "push", !.edges = edges]

\* refreshAuthor gives up after this many editions.
maxEditions == 1000

(***************************************************************************)
(* What a background goroutine does with the result of a call: its next    *)
(* call, or the edges it ends with.                                        *)
(***************************************************************************)
CallNext(t, k, phase) == [t EXCEPT !.pc = "call", !.key = k, !.phase = phase, !.ret = NoRet]

\* getBook's goroutine: GetWork, GetAuthor, then the workEdge.
bookDenormStep(t) ==
    IF t.ret.err # "nil" THEN FreeTask
    ELSE IF t.phase = "work" THEN CallNext(t, AuthorKey(t.aid), "author")
    ELSE Enqueuer(<<Edge("workEdge", t.wid, {t.subj})>>)

\* getWork's refresh task: GetBook for every edition it had cached, GetAuthor,
\* then the workEdge and the authorEdge.
workRefreshLoop(t) ==
    IF t.todo # <<>> THEN CallNext(t, BookKey(Head(t.todo)), "book")
    ELSE IF t.aid > 0 /\ t.phase # "author" THEN CallNext(t, AuthorKey(t.aid), "author")
    ELSE Enqueuer(<<Edge("workEdge", t.subj, t.acc)>>
                  \o IF t.aid > 0 THEN <<Edge("authorEdge", t.aid, {t.subj})>> ELSE <<>>)

workRefreshStep(t) ==
    IF t.phase = "book"
    THEN workRefreshLoop([t EXCEPT !.todo = Tail(t.todo),
                                   !.acc = IF t.ret.err = "nil"
                                           THEN t.acc \cup {Head(t.todo)} ELSE t.acc])
    ELSE workRefreshLoop(t)

\* (Variant: a refresh that loaded nothing reports nothing.)
refreshAuthorLoopQuiet(t) ==
    IF t.todo = <<>> \/ t.n > maxEditions
    THEN Enqueuer(IF t.acc # {}
                  THEN <<Edge("authorEdge", t.subj, t.acc), Edge("refreshDone", t.subj, {})>>
                  ELSE <<>>)
    ELSE CallNext(t, BookKey(Head(t.todo)), "book")

\* refreshAuthor: GetBook, then GetWork, for every edition of the author; then
\* one authorEdge with the works that loaded, and refreshDone.
refreshAuthorLoop(t) ==
    IF t.todo = <<>> \/ t.n > maxEditions
    THEN Enqueuer((IF t.acc # {} THEN <<Edge("authorEdge", t.subj, t.acc)>> ELSE <<>>)
                  \o <<Edge("refreshDone", t.subj, {})>>)
    ELSE CallNext(t, BookKey(Head(t.todo)), "book")

refreshAuthorStep(t) ==
    IF t.phase = "book"
    THEN IF t.ret.err # "nil" \/ ~Decodable(t.ret.bytes)
         THEN refreshAuthorLoop([t EXCEPT !.todo = Tail(t.todo)])
         ELSE IF Len(t.ret.bytes.authors) > 0 /\ t.ret.bytes.authors[1] # t.subj
         THEN refreshAuthorLoop([t EXCEPT !.todo = Tail(t.todo)])
         ELSE [CallNext(t, WorkKey(t.ret.bytes.id), "work") EXCEPT !.wid = t.ret.bytes.id]
    ELSE refreshAuthorLoop([t EXCEPT !.todo = Tail(t.todo), !.n = t.n + 1, !.wid = 0,
                                     !.acc = IF t.ret.err = "nil"
                                             THEN t.acc \cup {t.wid} ELSE t.acc])

\* The caller gets ret: a client has its answer, a goroutine goes on.
Resume(t, ret) ==
    CASE t.kind = "client" -> [t EXCEPT !.pc = "done", !.ret = ret]
      [] t.kind = "bookDenorm" -> bookDenormStep([t EXCEPT !.ret = ret])
      [] t.kind = "workRefresh" -> workRefreshStep([t EXCEPT !.ret = ret])
      [] t.kind = "authorRefresh" -> refreshAuthorStep([t EXCEPT !.ret = ret])

(***************************************************************************)
(* The fetch inside the singleflight, from "Cache miss" on.  seen is what  *)
(* the flight's lookups found, c the cache when it writes.                 *)
(***************************************************************************)
Fetched(c, ret, spawn) == [c |-> c, ret |-> ret, spawn |-> spawn]

\* (Variant: every failure is cached as missing.)
getBookNegative(ctx, c, seen, world, o, ttl, bookID) ==
    LET r == GetterGetBook(c, seen, world, o, bookID)
    IN IF r.err # "nil"
       THEN Fetched(CacheSet(r.c, BookKey(bookID), Missing, missingTTL),
                    ttlpair(NilBytes, 0, r.err), FreeTask)
       ELSE Fetched(CacheSet(r.c, BookKey(bookID), r.bytes, ttl),
                    ttlpair(r.bytes, ttl, "nil"),
                    IF r.workID > 0
                    THEN [FreeTask EXCEPT !.kind = "bookDenorm", !.pc = "call",
                                          !.key = WorkKey(r.workID), !.phase = "work",
                                          !.subj = bookID, !.wid = r.workID,
                                          !.aid = r.authorID, !.ctx = ctx]
                    ELSE FreeTask)

getBook(ctx, c, seen, world, o, ttl, bookID) ==
    LET r == GetterGetBook(c, seen, world, o, bookID)
    IN IF r.err = "notfound"
       THEN Fetched(CacheSet(r.c, BookKey(bookID), Missing, missingTTL),
                    ttlpair(NilBytes, 0, "notfound"), FreeTask)
       ELSE IF r.err # "nil"
       THEN Fetched(r.c, ttlpair(NilBytes, 0, r.err), FreeTask)
       ELSE Fetched(CacheSet(r.c, BookKey(bookID), r.bytes, ttl),
                    ttlpair(r.bytes, ttl, "nil"),
                    IF r.workID > 0
                    THEN [FreeTask EXCEPT !.kind = "bookDenorm", !.pc = "call",
                                          !.key = WorkKey(r.workID), !.phase = "work",
                                          !.subj = bookID, !.wid = r.workID,
                                          !.aid = r.authorID, !.ctx = ctx]
                    ELSE FreeTask)

getWork(c, seen, world, o, ttl, workID) ==
    LET cachedBytes == IF seen[WorkKey(workID)].ok THEN seen[WorkKey(workID)].val
                       ELSE NilBytes
        r == GetterGetWork(c, seen, world, o, workID)
    IN IF r.err = "notfound"
       THEN Fetched(CacheSet(r.c, WorkKey(workID), Missing, missingTTL),
                    ttlpair(NilBytes, 0, "notfound"), FreeTask)
       ELSE IF r.err # "nil"
       THEN Fetched(r.c, ttlpair(NilBytes, 0, r.err), FreeTask)
       ELSE Fetched(CacheSet(r.c, WorkKey(workID), r.bytes, ttl),
                    ttlpair(IF cachedBytes # NilBytes THEN cachedBytes ELSE r.bytes,
                            ttl, "nil"),
                    workRefreshLoop([FreeTask EXCEPT !.kind = "workRefresh",
                                         !.subj = workID, !.aid = r.authorID,
                                         !.todo = IF Decodable(cachedBytes)
                                                  THEN cachedBytes.books
                                                  ELSE <<>>]))

\* (Variant: the caller gets the document just fetched.)
getAuthorFetched(c, seen, world, o, ttl, real, authorID) ==
    LET found == IF seen[AuthorKey(authorID)].ok THEN seen[AuthorKey(authorID)].val
                 ELSE NilBytes
        r == GetterGetAuthor(c, seen, world, o, authorID)
    IN IF r.err = "notfound"
       THEN Fetched(CacheSet(r.c, AuthorKey(authorID), Missing, missingTTL),
                    ttlpair(NilBytes, 0, "notfound"), FreeTask)
       ELSE IF r.err # "nil"
       THEN Fetched(r.c, ttlpair(NilBytes, 0, r.err), FreeTask)
       ELSE LET cachedBytes == IF found = NilBytes THEN r.bytes ELSE found
            IN Fetched(Persist(CacheSet(r.c, AuthorKey(authorID), r.bytes, ttl),
                               real, authorID, cachedBytes),
                       ttlpair(r.bytes, ttl, "nil"),
                       [FreeTask EXCEPT !.kind = "authorRefresh", !.pc = "start",
                                        !.subj = authorID])

getAuthor(c, seen, world, o, ttl, real, authorID) ==
    LET found == IF seen[AuthorKey(authorID)].ok THEN seen[AuthorKey(authorID)].val
                 ELSE NilBytes
        r == GetterGetAuthor(c, seen, world, o, authorID)
    IN IF r.err = "notfound"
       THEN Fetched(CacheSet(r.c, AuthorKey(authorID), Missing, missingTTL),
                    ttlpair(NilBytes, 0, "notfound"), FreeTask)
       ELSE IF r.err # "nil"
       THEN Fetched(r.c, ttlpair(NilBytes, 0, r.err), FreeTask)
       ELSE LET cachedBytes == IF found = NilBytes THEN r.bytes ELSE found
            IN Fetched(Persist(CacheSet(r.c, AuthorKey(authorID), r.bytes, ttl),
                               real, authorID, cachedBytes),
                       ttlpair(cachedBytes, ttl, "nil"),
                       [FreeTask EXCEPT !.kind = "authorRefresh", !.pc = "start",
                                        !.subj = authorID])

(***************************************************************************)
(* Goroutine bookkeeping.                                                  *)
(***************************************************************************)
FreeIDs(ts) == {t \in TaskIDs : ts[t].kind = "free"}
NextFree(ts) == CHOOSE t \in FreeIDs(ts) : \A u \in FreeIDs(ts) : t <= u
CanSpawn(ts, task) == task = FreeTask \/ FreeIDs(ts) # {}
Spawn(ts, task) == IF task = FreeTask THEN ts ELSE [ts EXCEPT ![NextFree(ts)] = task]

\* (Variant: the result goes to the caller that started the flight only.)
DeliverStarter(ts, k, ret) ==
    [p \in Procs |-> IF ts[p].pc = "wait" /\ ts[p].key = k /\ ts[p].phase # "joined"
                     THEN Resume(ts[p], ret) ELSE ts[p]]

\* The flight on k ends: every caller waiting on it gets ret and goes on.
Deliver(ts, k, ret) ==
    [p \in Procs |-> IF ts[p].pc = "wait" /\ ts[p].key = k THEN Resume(ts[p], ret)
                     ELSE ts[p]]
DeliverRun(r, k, ret) ==
    IF r.pc = "wait" /\ k = AuthorKey(r.edge.parentID)
    THEN [r EXCEPT !.pc = "ret", !.ret = ret] ELSE r

\* Work refresh tasks that ended between ts and ts2 (each lowers the gauge).
Ended(ts, ts2) ==
    Cardinality({p \in Procs : ts[p].kind = "workRefresh" /\ ts2[p].kind # "workRefresh"})
Started(task) == IF task.kind = "workRefresh" THEN 1 ELSE 0

(***************************************************************************)
(* Actions.                                                                *)
(***************************************************************************)
\* A client calls GetBook, GetWork or GetAuthor (clients are alike: the
\* lowest-numbered one that is not in a call makes the request).
Ask(p, k) ==
    /\ tasks[p].kind = "free" \/ tasks[p].pc = "done"
    /\ \A q \in ClientIDs : q < p => tasks[q].kind = "client" /\ tasks[q].pc # "done"
    /\ nreq' = nreq + 1
    /\ tasks' = [tasks EXCEPT ![p] = [FreeTask EXCEPT !.kind = "client", !.pc = "call",
                                                      !.key = k, !.ctx = p]]
    /\ UNCHANGED <<apart, gone, up, persister, cache, flights, queue, run, denormWaiting,
                   refreshWaiting, nfail, nexp, fed>>

\* Clients ask for any book, work or author.
Request(p, k) ==
    /\ nreq < MaxReq
    /\ Ask(p, k)

\* Clients ask for the same thing again and again.
Repeat(p, k) ==
    /\ nreq < MaxRepeat
    /\ \A q \in ClientIDs : tasks[q].kind = "client" => tasks[q].key = k
    /\ Ask(p, k)

\* A client remembers how its call was served: straight away, by the flight
\* it started, or by a flight it joined.
How(t, x) == IF t.kind = "client" THEN [t EXCEPT !.phase = x] ELSE t

\* GetBook / GetWork / GetAuthor up to the singleflight and the cache read.
Call(p) ==
    /\ tasks[p].pc = "call"
    /\ LET d == Do(cache, flights, tasks[p].key, tasks[p].ctx)
           next == IF d.now THEN Resume(How(tasks[p], "now"), d.ret)
                   ELSE [How(tasks[p], IF flights[tasks[p].key].on THEN "joined"
                                       ELSE "started")
                            EXCEPT !.pc = "wait"]
       IN /\ flights' = d.fl
          /\ tasks' = [tasks EXCEPT ![p] = next]
          /\ refreshWaiting' = refreshWaiting - Ended(tasks, tasks')
    /\ UNCHANGED <<apart, gone, up, persister, cache, queue, run, denormWaiting, nreq, nfail, nexp, fed>>

\* The flight's function finishes: the Getter answers, the cache is written,
\* the follow-up goroutine starts and every waiter gets the result.
Land(k, f, o) ==
    /\ CanSpawn(Deliver(tasks, k, f.ret), f.spawn)
    /\ cache' = f.c
    /\ flights' = [flights EXCEPT ![k] = NoFlight]
    /\ tasks' = Spawn(Deliver(tasks, k, f.ret), f.spawn)
    /\ refreshWaiting' = refreshWaiting - Ended(tasks, Deliver(tasks, k, f.ret))
                                        + Started(f.spawn)
    /\ run' = DeliverRun(run, k, f.ret)
    /\ nfail' = nfail + Cost(o)
    /\ UNCHANGED <<apart, gone, up, persister, queue, denormWaiting, nreq, nexp, fed>>

BookReturn(b) ==
    /\ flights[BookKey(b)].on
    /\ \E o \in Answers(flights[BookKey(b)].ctx, Oracles({b}, {}, FALSE)),
          ttl \in fuzz(editionTTL, 2, 1) :
          Land(BookKey(b), getBook(flights[BookKey(b)].ctx, cache, flights[BookKey(b)].seen,
                                   up, o, ttl, b), o)

WorkReturn(w) ==
    /\ flights[WorkKey(w)].on
    /\ \E o \in Answers(flights[WorkKey(w)].ctx, Oracles({up.best[w]}, {w}, FALSE)),
          ttl \in fuzz(workTTL, 3, 2) :
          Land(WorkKey(w), getWork(cache, flights[WorkKey(w)].seen, up, o, ttl, w), o)

AuthorReturn(a) ==
    /\ flights[AuthorKey(a)].on
    /\ \E o \in Answers(flights[AuthorKey(a)].ctx, Oracles({}, {}, TRUE)),
          ttl \in fuzz(authorTTL, 3, 2) :
          Land(AuthorKey(a),
               getAuthor(cache, flights[AuthorKey(a)].seen, up, o, ttl, persister, a), o)

\* The author refresh task starts: GetAuthorBooks loads the author and
\* lists the best editions of the author's works (none if that fails).
RefreshAuthorStart(p) ==
    /\ tasks[p].kind = "authorRefresh" /\ tasks[p].pc = "start"
    /\ \E o \in Oracles({}, {}, TRUE) :
          LET g == GetterGetAuthor(cache, cache, up, o, tasks[p].subj)
              ids == IF g.err = "nil" THEN UpAuthorBooks(up, tasks[p].subj) ELSE <<>>
          IN /\ cache' = g.c
             /\ tasks' = [tasks EXCEPT ![p] = refreshAuthorLoop([tasks[p] EXCEPT !.todo = ids])]
             /\ nfail' = nfail + Cost(o)
    /\ refreshWaiting' = refreshWaiting + 1
    /\ UNCHANGED <<apart, gone, up, persister, flights, queue, run, denormWaiting, nreq, nexp, fed>>

\* c.add: the goroutine's next edge goes through the channel into the buffer.
Add(p) ==
    /\ tasks[p].pc = "push"
    /\ LET r == push(queue, Head(tasks[p].edges))
       IN /\ queue' = r.queue
          /\ denormWaiting' = denormWaiting + r.added
    /\ tasks' = [tasks EXCEPT ![p] = Enqueuer(Tail(tasks[p].edges))]
    /\ UNCHANGED <<apart, gone, up, persister, cache, flights, run, refreshWaiting, nreq, nfail, nexp, fed>>

(***************************************************************************)
(* Run, the denormalization loop.                                          *)
(***************************************************************************)
\* The edge is done: the loop is back at pop and the gauge is lowered.
Yielded(e, etag, err) ==
    /\ run' = [Idle EXCEPT !.edge = e, !.etag = etag, !.ret = ttlpair(NilBytes, 0, err)]
    /\ denormWaiting' = denormWaiting - Cardinality(e.childIDs)

\* case workEdge: denormalizeEditions, and the authorEdges it owes.
RunWorkEdge ==
    /\ run.pc = "idle" /\ queue # <<>> /\ Head(queue).kind = "workEdge"
    /\ LET e == Head(queue)
       IN /\ \E bookIDs \in Orders(e.childIDs),
                o \in Oracles(e.childIDs \cup {up.best[e.parentID]}, {e.parentID}, FALSE),
                ttl \in fuzz(workTTL, 3, 2) :
                LET d == denormalizeEditions(cache, up, o, ttl, e.parentID, bookIDs)
                    go == Enqueuer([i \in 1..Len(d.authors) |->
                                       Edge("authorEdge", d.authors[i], {e.parentID})])
                IN /\ CanSpawn(tasks, go)
                   /\ cache' = d.c
                   /\ tasks' = Spawn(tasks, go)
                   /\ nfail' = nfail + Cost(o)
                   /\ Yielded(e, d.etag, d.err)
    /\ queue' = Tail(queue)
    /\ UNCHANGED <<apart, gone, up, persister, flights, refreshWaiting, nreq, nexp, fed>>

\* denormalizeWorks from the decoding of the author bytes on, to the end.
Works(e, authorBytes) ==
    \E workIDs \in Orders(e.childIDs),
       o \in Oracles({up.best[w] : w \in e.childIDs}, e.childIDs, FALSE),
       ttl \in fuzz(authorTTL, 3, 2) :
       LET d == denormalizeWorks(cache, up, o, ttl, e.parentID, authorBytes, workIDs)
       IN /\ cache' = d.c
          /\ nfail' = nfail + Cost(o)
          /\ Yielded(e, d.etag, d.err)

\* case authorEdge: denormalizeWorks loads the author through GetAuthor and,
\* if it is served straight away, goes on (nothing to do for a denylisted
\* author or no works).
RunAuthorEdge ==
    /\ run.pc = "idle" /\ queue # <<>> /\ Head(queue).kind = "authorEdge"
    /\ LET e == Head(queue)
           d == Do(cache, flights, AuthorKey(e.parentID), Background)
       IN IF unknownAuthor(e.parentID) \/ e.childIDs = {}
          THEN Yielded(e, "none", "nil") /\ UNCHANGED <<flights, cache, nfail>>
          ELSE IF ~d.now
          THEN /\ flights' = d.fl
               /\ run' = [Idle EXCEPT !.pc = "wait", !.edge = e]
               /\ UNCHANGED <<denormWaiting, cache, nfail>>
          ELSE IF d.ret.err # "nil"
          THEN Yielded(e, "none", d.ret.err) /\ UNCHANGED <<flights, cache, nfail>>
          ELSE Works(e, d.ret.bytes) /\ UNCHANGED flights
    /\ queue' = Tail(queue)
    /\ UNCHANGED <<apart, gone, up, persister, tasks, refreshWaiting, nreq, nexp, fed>>

\* GetAuthor was rate limited: denormalizeWorks asks once more.
RunAuthorRetry ==
    /\ run.pc = "ret" /\ run.ret.err = "ratelimited" /\ run.tries = 0
    /\ LET d == Do(cache, flights, AuthorKey(run.edge.parentID), Background)
       IN /\ flights' = d.fl
          /\ run' = [run EXCEPT !.pc = IF d.now THEN "ret" ELSE "wait", !.ret = d.ret,
                                !.tries = 1]
    /\ UNCHANGED <<apart, gone, up, persister, cache, tasks, queue, denormWaiting, refreshWaiting,
                   nreq, nfail, nexp, fed>>

\* GetAuthor failed: denormalizeWorks returns the error.
RunAuthorFailed ==
    /\ run.pc = "ret" /\ run.ret.err # "nil"
    /\ run.ret.err = "ratelimited" => run.tries = 1
    /\ Yielded(run.edge, "none", run.ret.err)
    /\ UNCHANGED <<apart, gone, up, persister, cache, flights, tasks, queue, refreshWaiting, nreq,
                   nfail, nexp, fed>>

\* The author arrived: the rest of denormalizeWorks.
RunWorks ==
    /\ run.pc = "ret" /\ run.ret.err = "nil"
    /\ Works(run.edge, run.ret.bytes)
    /\ UNCHANGED <<apart, gone, up, persister, flights, tasks, queue, refreshWaiting, nreq, nexp, fed>>

\* case refreshDone: the refresh is over.
RunRefreshDone ==
    /\ run.pc = "idle" /\ queue # <<>> /\ Head(queue).kind = "refreshDone"
    /\ refreshWaiting' = refreshWaiting - 1
    /\ cache' = PersistDelete(cache, persister, Head(queue).parentID)
    /\ run' = [Idle EXCEPT !.edge = Head(queue)]
    /\ queue' = Tail(queue)
    /\ UNCHANGED <<apart, gone, up, persister, flights, tasks, denormWaiting, nreq, nfail, nexp, fed>>

\* Nothing is in flight, queued or running: the denormalization has settled.
Settled ==
    /\ queue = <<>>
    /\ run.pc = "idle"
    /\ \A k \in FlightKeys : ~flights[k].on
    /\ \A p \in Procs : tasks[p].kind = "free" \/ tasks[p].pc = "done"

\* Time passes: an entry's TTL runs out.
Expire(k) ==
    /\ nexp < MaxExpire
    /\ Live(cache, k)
    /\ cache' = CacheExpire(cache, k)
    /\ nexp' = nexp + 1
    /\ UNCHANGED <<apart, gone, up, persister, flights, tasks, queue, run, denormWaiting,
                   refreshWaiting, nreq, nfail, fed>>

RequestKeys == FlightKeys \cup {AuthorKey(a) : a \in DenyAuthors}

Next ==
    \/ \E p \in ClientIDs, k \in RequestKeys : Request(p, k)
    \/ \E p \in Procs : Call(p)
    \/ \E b \in BookIDs : BookReturn(b)
    \/ \E w \in WorkIDs : WorkReturn(w)
    \/ \E a \in AuthorIDs : AuthorReturn(a)
    \/ \E p \in TaskIDs : RefreshAuthorStart(p)
    \/ \E p \in TaskIDs : Add(p)
    \/ RunWorkEdge
    \/ RunAuthorEdge
    \/ RunAuthorRetry
    \/ RunAuthorFailed
    \/ RunWorks
    \/ RunRefreshDone

Spec == Init /\ [][Next]_vars

\* Some goroutine adds edges of its own making for one parent (as the tests
\* do by calling the denormalizer directly).
Edges ==
    {Edge("workEdge", w, S) : w \in WorkIDs, S \in SUBSET BookIDs \ {{}}}
    \cup {Edge("authorEdge", a, S) : a \in AuthorIDs, S \in SUBSET WorkIDs \ {{}}}

Enqueue(e) ==
    /\ nreq < MaxEdges
    /\ e.kind = fed.kind /\ e.parentID = fed.parentID
    /\ nreq' = nreq + 1
    /\ LET r == push(queue, e)
       IN /\ queue' = r.queue
          /\ denormWaiting' = denormWaiting + r.added
    /\ UNCHANGED <<apart, gone, up, persister, cache, flights, tasks, run, refreshWaiting, nfail,
                   nexp, fed>>

\* The program's own steps, whatever the clients do.
Program ==
    \/ \E p \in Procs : Call(p)
    \/ \E b \in BookIDs : BookReturn(b)
    \/ \E w \in WorkIDs : WorkReturn(w)
    \/ \E a \in AuthorIDs : AuthorReturn(a)
    \/ \E p \in TaskIDs : RefreshAuthorStart(p)
    \/ \E p \in TaskIDs : Add(p)
    \/ RunWorkEdge
    \/ RunAuthorEdge
    \/ RunAuthorRetry
    \/ RunAuthorFailed
    \/ RunWorks
    \/ RunRefreshDone

\* Clients that repeat one request, with no entry expiring meanwhile.
NextRepeat ==
    \/ \E p \in ClientIDs, k \in RequestKeys : Repeat(p, k)
    \/ Program

SpecRepeat == InitReal /\ [][NextRepeat]_vars

\* A work's entry runs out just as a goroutine is about to load the work
\* (while author edges are fed).
Outdated(w) ==
    /\ fed.kind = "authorEdge"
    /\ \E p \in TaskIDs : tasks[p].pc = "call" /\ tasks[p].key = WorkKey(w)
    /\ Expire(WorkKey(w))

\* The denormalizer fed with arbitrary edges.
NextDenorm ==
    \/ \E e \in Edges : Enqueue(e)
    \/ \E w \in WorkIDs : Outdated(w)
    \/ Program

\* The tests' controller (no persister), fed edges for one work or author.
InitDenorm ==
    /\ up \in Worlds
    /\ persister = FALSE
    /\ fed \in {Edge("workEdge", w, {}) : w \in WorkIDs}
               \cup {Edge("authorEdge", a, {}) : a \in AuthorIDs}
    /\ Fresh
    /\ Aside

SpecDenorm == InitDenorm /\ [][NextDenorm]_vars

\* A work's entry runs out just as some caller is about to ask for the work.
Overdue(w) ==
    /\ \E p \in Procs : tasks[p].pc = "call" /\ tasks[p].key = WorkKey(w)
    /\ Expire(WorkKey(w))

\* Clients' requests, with work entries running out under way.
NextOverdue ==
    \/ \E p \in ClientIDs, k \in RequestKeys : Request(p, k)
    \/ \E w \in WorkIDs : Overdue(w)
    \/ Program

SpecOverdue == InitReal /\ [][NextOverdue]_vars

\* A quiet service: a client reads a work or an author, or an entry's TTL
\* runs out, when all that went before has settled.
Read(p, k) ==
    /\ nreq < MaxReads
    /\ Settled
    /\ Ask(p, k)

Lapse(k) ==
    /\ Settled
    /\ Expire(k)

ReadKeys == {k \in FlightKeys : k[1] # "b"}

NextAuthor ==
    \/ \E p \in ClientIDs, k \in ReadKeys : Read(p, k)
    \/ \E k \in ReadKeys : Lapse(k)
    \/ Program

\* The service as deployed, on a catalogue without merges.
InitAuthor ==
    /\ up = WorldPlain
    /\ persister = TRUE
    /\ fed = NoEdge
    /\ Fresh
    /\ Aside

SpecAuthor == InitAuthor /\ [][NextAuthor]_vars

\* One read of a work or an author and what follows from it, where
\* goroutines get scheduled, upstream answers and the loop keeps running.
ReadOnce(p, k) ==
    /\ nreq = 0
    /\ Ask(p, k)

NextLive ==
    \/ \E p \in ClientIDs, k \in ReadKeys : ReadOnce(p, k)
    \/ \E k \in ReadKeys : Lapse(k)
    \/ Program

SpecLive == InitAuthor /\ [][NextLive]_vars /\ WF_vars(Program)

\* A client calls GetBook, once.
GetBookOnce(p, b) ==
    /\ tasks[p].kind = "free"
    /\ Ask(p, BookKey(b))

\* The context of client p's request is cancelled: the client went away, or
\* the handler has returned.
Cancel(p) ==
    /\ tasks[p].kind = "client"
    /\ p \notin gone
    /\ gone' = gone \cup {p}
    /\ UNCHANGED <<apart, up, persister, cache, flights, tasks, queue, run, denormWaiting,
                   refreshWaiting, nreq, nfail, nexp, fed>>

NextCancel ==
    \/ \E p \in ClientIDs, b \in BookIDs : GetBookOnce(p, b)
    \/ \E p \in ClientIDs : Cancel(p)
    \/ Program

\* The service as deployed, on a catalogue without merges, with requests
\* that get cancelled.
SpecCancel == InitAuthor /\ [][NextCancel]_vars

\* The body of an author refresh task panics between two of its calls: the
\* deferred recover logs the panic and the task ends there.
Panic(p) ==
    /\ tasks[p].kind = "authorRefresh" /\ tasks[p].pc = "call"
    /\ nfail < MaxFail
    /\ tasks' = [tasks EXCEPT ![p] = FreeTask]
    /\ nfail' = nfail + 1
    /\ UNCHANGED <<apart, gone, up, persister, cache, flights, queue, run, denormWaiting,
                   refreshWaiting, nreq, nexp, fed>>

\* A quiet service whose refresh tasks may panic.
NextPanic ==
    \/ \E p \in ClientIDs, k \in ReadKeys : Read(p, k)
    \/ \E p \in TaskIDs : Panic(p)
    \/ Program

SpecPanic == InitAuthor /\ [][NextPanic]_vars

(***************************************************************************)
(* The persister and the recovery at startup, on their own: authors are    *)
(* loaded cold, their refreshes finish, the clock ticks between some       *)
(* calls and not between others, and the process restarts.                 *)
(***************************************************************************)
Count(ids, a) == Cardinality({i \in 1..Len(ids) : ids[i] = a})
Without(ids, a) ==
    LET i == CHOOSE i \in 1..Len(ids) : ids[i] = a /\ \A j \in 1..(i - 1) : ids[j] # a
    IN SubSeq(ids, 1, i - 1) \o SubSeq(ids, i + 1, Len(ids))

Tick ==
    /\ now < MaxClock
    /\ now' = now + 1
    /\ UNCHANGED <<rows, resumed, refreshes, service, queue, denormWaiting,
                   bufferVars, titleVars, lab>>

\* getAuthor on an author that is not being refreshed and not cached: the
\* snapshot is persisted and the refresh submitted.
Refresh(a) ==
    /\ rows[a] = 0
    /\ rows' = PersistRow(rows, now, a)
    /\ refreshes' = Append(refreshes, a)
    /\ UNCHANGED <<now, resumed, service, queue, denormWaiting, bufferVars, titleVars, lab>>

\* Persist called again for an author already recorded (TestPersister).
Persists(a) ==
    /\ rows[a] # 0
    /\ rows' = PersistRow(rows, now, a)
    /\ UNCHANGED <<now, resumed, refreshes, service, queue, denormWaiting,
                   bufferVars, titleVars, lab>>

\* A refresh ends: its refreshDone is processed and the row deleted.
Done(a) ==
    /\ Count(refreshes, a) > 0
    /\ rows' = DeleteRow(rows, a)
    /\ refreshes' = Without(refreshes, a)
    /\ UNCHANGED <<now, resumed, service, queue, denormWaiting, bufferVars, titleVars, lab>>

\* The process stops and a new one starts: the rows are all that is left.
Restart ==
    /\ now < MaxClock
    /\ now' = now + 1
    /\ resumed' = Booting
    /\ refreshes' = <<>>
    /\ UNCHANGED <<rows, service, queue, denormWaiting, bufferVars, titleVars, lab>>

\* NewController's recovery goroutine: refreshAuthor for every ID that
\* Persisted returns.
Recover ==
    /\ resumed.pc = "recover"
    /\ \E ids \in Persisted(rows) :
          /\ resumed' = [pc |-> "done", ids |-> ids]
          /\ refreshes' = refreshes \o ids
    /\ UNCHANGED <<rows, now, service, queue, denormWaiting, bufferVars, titleVars, lab>>

NextPersist ==
    \/ Tick
    \/ \E a \in RefreshIDs : Refresh(a)
    \/ \E a \in RefreshIDs : Persists(a)
    \/ \E a \in RefreshIDs : Done(a)
    \/ Restart
    \/ Recover

InitPersist ==
    /\ up = WorldPlain
    /\ persister = TRUE
    /\ fed = NoEdge
    /\ Fresh
    /\ Aside

SpecPersist == InitPersist /\ [][NextPersist]_vars

(***************************************************************************)
(* The edge buffer on its own, as the tests drive it: a producer sends     *)
(* edges down the channel and closes it, the grouper's goroutine pushes    *)
(* them and closes the buffer, and a consumer pulls.                       *)
(***************************************************************************)
BufferEdges ==
    {Edge("authorEdge", parent, {c}) : parent \in 1..2, c \in 1..2}
    \cup {Edge("workEdge", 1, {c}) : c \in 1..2}
    \cup {Edge("refreshDone", 1, {})}

Op(op, e) == [op |-> op, edge |-> e]

\* The goroutine of group takes the next edge off the channel and pushes it.
Push(e) ==
    /\ denormC = "open"
    /\ Len(ops) < MaxOps
    /\ LET r == push(queue, e)
       IN /\ queue' = r.queue
          /\ size' = size + r.added
          /\ denormWaiting' = denormWaiting + r.added
    /\ ops' = Append(ops, Op("push", e))
    /\ UNCHANGED <<closed, denormC, ended, service, persistVars, titleVars, lab>>

\* The producer closes the channel.
CloseChannel ==
    /\ denormC = "open"
    /\ denormC' = "closed"
    /\ UNCHANGED <<closed, size, ops, ended, queue, denormWaiting, service,
                   persistVars, titleVars, lab>>

\* The goroutine's range over the channel ends: buffer.close().
Close ==
    /\ denormC = "closed" /\ ~closed
    /\ closed' = TRUE
    /\ ops' = Append(ops, Op("close", NoEdge))
    /\ UNCHANGED <<size, denormC, ended, queue, denormWaiting, service,
                   persistVars, titleVars, lab>>

\* The consumer pulls: pop, and the edge is yielded or the sequence ends.
Pull ==
    /\ ~ended
    /\ LET r == pop(queue, closed)
       IN /\ ~r.wait
          /\ queue' = r.queue
          /\ ended' = ~r.ok
          /\ size' = size - Cardinality(r.edge.childIDs)
          /\ denormWaiting' = denormWaiting - Cardinality(r.edge.childIDs)
          /\ ops' = IF r.ok THEN Append(ops, Op("pop", r.edge)) ELSE ops
    /\ UNCHANGED <<closed, denormC, service, persistVars, titleVars, lab>>

NextBuffer ==
    \/ \E e \in BufferEdges : Push(e)
    \/ CloseChannel
    \/ Close
    \/ Pull

SpecBuffer == InitPersist /\ [][NextBuffer]_vars

(***************************************************************************)
(* The titles in denormalizeWorks, on their own.  A work as far as its     *)
(* titles go: Title, FullTitle, ShortTitle (empty in a document written    *)
(* before the field existed, as in TestSubtitles), whether it is in a      *)
(* series, and the Title and FullTitle of its two editions.                *)
(***************************************************************************)
TitledIDs == 1..MaxTitled
FullOf(id) == CASE id = 1 -> "Foo: One" [] id = 2 -> "Foo: Two" [] OTHER -> "Foo: Three"

\* (Variant: titles are compared as they are written.)
ToUpperNot(t) == t

\* strings.ToUpper on the titles at hand.
ToUpper(t) ==
    CASE t = "Foo" -> "FOO"
      [] t = "Bar" -> "BAR"
      [] t = "Foo: One" -> "FOO: ONE"
      [] t = "Foo: Two" -> "FOO: TWO"
      [] t = "Foo: Three" -> "FOO: THREE"
      [] OTHER -> t

Titled(id, title, full, short, series) ==
    [id |-> id, Title |-> title, FullTitle |-> full, ShortTitle |-> short,
     Series |-> series,
     Books |-> <<[Title |-> title, FullTitle |-> "Edition"],
                 [Title |-> title, FullTitle |-> ""]>>]

\* The works as the Getter serves them: the ShortTitle of a work is its
\* Title, or missing.
AnyLibs ==
    {<<Titled(1, "FOO", FullOf(1), s1, FALSE), Titled(2, t2, f2, s2, FALSE),
       Titled(3, t3, FullOf(3), s3, r3)>> :
       s1 \in {"FOO", ""}, t2 \in {"Foo", "Bar"}, f2 \in {FullOf(2), ""},
       s2 \in {"Foo", "Bar", ""}, t3 \in {"Foo", "Bar"}, s3 \in {"Foo", "Bar", ""},
       r3 \in BOOLEAN}
Libs ==
    {l \in AnyLibs : \A id \in TitledIDs : l[id].ShortTitle \in {l[id].Title, ""}}

\* The title a work is counted under: ShortTitle, or Title if it has none.
shortTitle(w) == IF w.ShortTitle # "" THEN w.ShortTitle ELSE w.Title

\* titles[...]: how many of the works count under the title t.
titles(works, t) ==
    Cardinality({i \in 1..Len(works) : ToUpper(shortTitle(works[i])) = t})

\* The loop that replaces or inserts the works loaded, by foreign ID.
RECURSIVE EnsureTitled(_, _, _)
EnsureTitled(works, fresh, ids) ==
    IF ids = <<>> THEN works
    ELSE LET work == fresh[Head(ids)]
             at == BinarySearch(IDsOf(works), work.id)
         IN EnsureTitled(IF at.found THEN Replace(works, at.idx, work)
                         ELSE Insert(works, at.idx, work),
                         fresh, Tail(ids))

\* Disambiguation: a work in a series, or one of several counted under its
\* title, takes its full title if it has one, and so do its editions.
disambiguate(works) ==
    [idx \in 1..Len(works) |->
        LET w == works[idx]
        IN IF ~w.Series /\ titles(works, ToUpper(shortTitle(w))) <= 1 THEN w
           ELSE IF w.FullTitle = "" THEN w
           ELSE [w EXCEPT !.Title = w.FullTitle,
                          !.Books = [b \in 1..Len(w.Books) |->
                                       IF w.Books[b].FullTitle = "" THEN w.Books[b]
                                       ELSE [w.Books[b] EXCEPT
                                                !.Title = w.Books[b].FullTitle]]]]

\* denormalizeWorks(authorID, workIDs...) as far as the titles go.
DenormalizeTitles(S) ==
    /\ merged' = EnsureTitled(authorWorks, lib, Sorted(S))
    /\ authorWorks' = disambiguate(merged')
    /\ UNCHANGED <<lib, service, queue, denormWaiting, bufferVars, persistVars, lab>>

NextTitles == \E S \in SUBSET TitledIDs \ {{}} : DenormalizeTitles(S)

\* An author as the Getter first serves it, with some of the works on it.
InitTitles ==
    /\ up = WorldPlain
    /\ persister = TRUE
    /\ fed = NoEdge
    /\ Fresh
    /\ BufferAtRest
    /\ PersisterAtRest
    /\ LabAtRest
    /\ lib \in Libs
    /\ merged = <<>>
    /\ \E S \in SUBSET TitledIDs : authorWorks = EnsureTitled(<<>>, lib, Sorted(S))

SpecTitles == InitTitles /\ [][NextTitles]_vars

(***************************************************************************)
(* Recommendations, on its own: the Getter delivers work IDs, a goroutine  *)
(* per ID calls GetWork and appends the ID to workIDs if that succeeds,    *)
(* and the caller assigns workIDs to recs.WorkIDs and returns without      *)
(* waiting for the goroutines (wg.Wait is never called), so the slice it   *)
(* reads is the slice as it happens to be at that moment.                  *)
(***************************************************************************)
RecIDs == 1..MaxWork + 1

\* The sequences of distinct work IDs the Getter may deliver.
Delivered == UNION {Orders(S) : S \in SUBSET RecIDs}

\* c.getter.Recommendations answers with ids, and the loop starts one
\* goroutine for each; good are the works GetWork succeeds for.
Recommend(ids, good) ==
    /\ recs = NoRecs
    /\ recs' = [pc |-> "spawned", delivered |-> ids, good |-> good,
                running |-> 1..Len(ids), workIDs |-> <<>>, out |-> <<>>]
    /\ UNCHANGED <<main, shelf, fetch, pipe, order, save, group, gauge>>

\* The goroutine of the i-th ID: GetWork returns, and the ID is appended
\* unless it failed.
Appended(i) ==
    /\ recs.pc # "none"
    /\ i \in recs.running
    /\ recs' = [recs EXCEPT !.running = @ \ {i},
                            !.workIDs = IF recs.delivered[i] \in recs.good
                                        THEN Append(@, recs.delivered[i]) ELSE @]
    /\ UNCHANGED <<main, shelf, fetch, pipe, order, save, group, gauge>>

\* recs.WorkIDs = workIDs; return recs, nil.
RecommendationsReturn ==
    /\ recs.pc = "spawned"
    /\ recs' = [recs EXCEPT !.pc = "returned", !.out = recs.workIDs]
    /\ UNCHANGED <<main, shelf, fetch, pipe, order, save, group, gauge>>

NextRecs ==
    \/ \E ids \in Delivered, good \in SUBSET RecIDs : Recommend(ids, good)
    \/ \E i \in 1..Cardinality(RecIDs) : Appended(i)
    \/ RecommendationsReturn

SpecRecs == InitPersist /\ [][NextRecs]_vars

(***************************************************************************)
(* GetSeries, on its own: the entries under s<id>, calls made one after    *)
(* the other (each in a flight of its own) and TTLs running out.           *)
(***************************************************************************)
SeriesIDs == 1..MaxSeries
seriesKey(id) == <<"s", id>>

SeriesDoc(id) == Rsc("series", id, <<>>, <<>>, <<>>, FALSE)

\* getSeries: what it returns, what it leaves under s<id>, and whether it
\* invoked the Getter, which answers o.
getSeries(c, o, seriesID) ==
    LET e == c[seriesKey(seriesID)]
    IN IF e.ok /\ e.ttl > 0
       THEN IF e.val = Missing
            THEN [c |-> c, bytes |-> NilBytes, err |-> "notfound", invoked |-> FALSE]
            ELSE [c |-> c, bytes |-> e.val, err |-> "nil", invoked |-> FALSE]
       ELSE IF o # "ok"
       THEN [c |-> c, bytes |-> NilBytes, err |-> o, invoked |-> TRUE]
       ELSE LET out == Marshal(SeriesDoc(seriesID))
            IN [c |-> CacheSet(c, seriesKey(seriesID), out, seriesTTL),
                bytes |-> out, err |-> "nil", invoked |-> TRUE]

\* A GetSeries call, from group.Do to its return.
GetSeries(seriesID, o) ==
    /\ shelf.n < MaxGets
    /\ LET r == getSeries(shelf.c, o, seriesID)
       IN shelf' = [pc |-> "on", c |-> r.c, n |-> shelf.n + 1,
                    last |-> [id |-> seriesID, bytes |-> r.bytes, err |-> r.err,
                              invoked |-> r.invoked],
                    before |-> shelf.last]
    /\ UNCHANGED <<main, recs, fetch, pipe, order, save, group, gauge>>

\* The TTL of a series entry runs out.
LapseSeries(seriesID) ==
    /\ Live(shelf.c, seriesKey(seriesID))
    /\ shelf' = [shelf EXCEPT !.c = CacheExpire(@, seriesKey(seriesID))]
    /\ UNCHANGED <<main, recs, fetch, pipe, order, save, group, gauge>>

NextSeries ==
    \/ \E id \in SeriesIDs, o \in Outcomes : GetSeries(id, o)
    \/ \E id \in SeriesIDs : LapseSeries(id)

NoCall == [id |-> 0, bytes |-> NilBytes, err |-> "nil", invoked |-> FALSE]

InitSeries ==
    /\ up = WorldPlain
    /\ persister = TRUE
    /\ fed = NoEdge
    /\ Fresh
    /\ BufferAtRest /\ PersisterAtRest /\ TitlesAtRest
    /\ recs = NoRecs /\ fetch = NoFetch /\ pipe = NoPipe /\ order = NoOrder /\ save = NoSave /\ group = NoGroup /\ gauge = NoGauge
    /\ shelf = [pc |-> "on", c |-> [k \in {seriesKey(id) : id \in SeriesIDs} |-> NoEntry],
                n |-> 0, last |-> NoCall, before |-> NoCall]

SpecSeries == InitSeries /\ [][NextSeries]_vars

(***************************************************************************)
(* The loop of refreshAuthor, on its own, for an author of very many       *)
(* editions: GetAuthorBooks yields MaxYield edition IDs, each GetBook and  *)
(* GetWork succeeds or not, and fetch counts the GetBook calls made.       *)
(***************************************************************************)
\* The edition IDs GetAuthorBooks has yet to yield when left are left.
Yields(left) == [i \in 1..left |-> ((left - i) % MaxBook) + 1]

\* The refresh task as it stands.
FetchTask ==
    [FreeTask EXCEPT !.kind = "authorRefresh", !.pc = "call", !.phase = fetch.pc,
                     !.subj = 1, !.n = fetch.n, !.acc = fetch.acc, !.wid = fetch.wid,
                     !.todo = Yields(fetch.left),
                     !.key = IF fetch.pc = "book" THEN BookKey(Yields(fetch.left)[1])
                             ELSE WorkKey(fetch.wid)]

\* What is kept of the task.
Fetching(t, calls, skips) ==
    [pc |-> IF t.pc = "call" THEN t.phase ELSE "done", n |-> t.n, acc |-> t.acc,
     wid |-> t.wid, left |-> Len(t.todo), calls |-> calls, skips |-> skips,
     edges |-> t.edges]

\* What GetBook may return for an edition: the edition (of the author, or of
\* another author first), or an error.
BookAnswers(b) ==
    {ttlpair(UpBook(WorldPlain, b), editionTTL, "nil"),
     ttlpair([UpBook(WorldPlain, b) EXCEPT !.authors = <<2, 1>>], editionTTL, "nil"),
     ttlpair(NilBytes, 0, "notfound")}
Skipped(ret) == ret.err # "nil" \/ ret.bytes.authors[1] # 1

\* The refresh task starts the loop.
FetchStart ==
    /\ fetch = NoFetch
    /\ fetch' = Fetching(refreshAuthorLoop([FreeTask EXCEPT !.kind = "authorRefresh",
                                                            !.subj = 1,
                                                            !.todo = Yields(MaxYield)]),
                         0, 0)
    /\ UNCHANGED <<main, recs, shelf, pipe, order, save, group, gauge>>

\* c.GetBook(ctx, bookID) returns.
FetchBook ==
    /\ fetch.pc = "book"
    /\ \E ret \in BookAnswers(FetchTask.key[2]) :
          /\ Skipped(ret) => fetch.skips < MaxSkips
          /\ fetch' = Fetching(refreshAuthorStep([FetchTask EXCEPT !.ret = ret]),
                               fetch.calls + 1,
                               fetch.skips + IF Skipped(ret) THEN 1 ELSE 0)
    /\ UNCHANGED <<main, recs, shelf, pipe, order, save, group, gauge>>

\* c.GetWork(ctx, workID) returns.
FetchWork(err) ==
    /\ fetch.pc = "work"
    /\ err # "nil" => fetch.skips < MaxSkips
    /\ fetch' = Fetching(refreshAuthorStep([FetchTask EXCEPT
                                               !.ret = ttlpair(NilBytes, 0, err)]),
                         fetch.calls,
                         fetch.skips + IF err # "nil" THEN 1 ELSE 0)
    /\ UNCHANGED <<main, recs, shelf, pipe, order, save, group, gauge>>

NextFetch ==
    \/ FetchStart
    \/ FetchBook
    \/ \E err \in {"nil", "ratelimited"} : FetchWork(err)

SpecFetch == InitPersist /\ [][NextFetch]_vars

(***************************************************************************)
(* accumulate, on its own, over a slicebuffer: a producer sends values     *)
(* down the producer channel and closes it, accumulate's goroutine selects *)
(* between receiving from the producer and sending the head of the buffer  *)
(* to the consumer, and a consumer receives.                               *)
(***************************************************************************)
Values == 1..2

\* accumulate(producer, buf) is called: both channels open, the buffer empty.
Accumulate ==
    /\ pipe = NoPipe
    /\ pipe' = [pc |-> "select", producer |-> "open", c |-> "open", buf |-> <<>>,
                sent |-> <<>>, got |-> <<>>]
    /\ UNCHANGED <<main, recs, shelf, fetch, order, save, group, gauge>>

\* case val, ok := <-producer with ok: the producer's send goes through and
\* the value is pushed.
Produce(val) ==
    /\ pipe.pc = "select" /\ pipe.producer = "open"
    /\ Len(pipe.sent) < MaxSent
    /\ pipe' = [pipe EXCEPT !.buf = Append(@, val), !.sent = Append(@, val)]
    /\ UNCHANGED <<main, recs, shelf, fetch, order, save, group, gauge>>

\* case consumer <- next: the consumer receives the head of the buffer,
\* which is popped.
Consume ==
    /\ pipe.pc = "select" /\ pipe.buf # <<>>
    /\ pipe' = [pipe EXCEPT !.buf = Tail(@), !.got = Append(@, Head(pipe.buf))]
    /\ UNCHANGED <<main, recs, shelf, fetch, order, save, group, gauge>>

\* close(producer).
CloseProducer ==
    /\ pipe.pc # "none" /\ pipe.producer = "open"
    /\ pipe' = [pipe EXCEPT !.producer = "closed"]
    /\ UNCHANGED <<main, recs, shelf, fetch, order, save, group, gauge>>

\* case val, ok := <-producer with !ok: close(c) and return.
Finish ==
    /\ pipe.pc = "select" /\ pipe.producer = "closed"
    /\ pipe' = [pipe EXCEPT !.pc = "returned", !.c = "closed"]
    /\ UNCHANGED <<main, recs, shelf, fetch, order, save, group, gauge>>

NextAccumulate ==
    \/ Accumulate
    \/ \E val \in Values : Produce(val)
    \/ Consume
    \/ CloseProducer
    \/ Finish

SpecAccumulate == InitPersist /\ [][NextAccumulate]_vars

(***************************************************************************)
(* The end of one refreshAuthor and the edge buffer, on their own: the     *)
(* goroutine refreshAuthor ends with adds its authorEdge and its           *)
(* refreshDone, other goroutines add edges of theirs, and Run takes the    *)
(* edges off the buffer one by one.  order remembers where the refresh's   *)
(* two edges are and how far the loop is with them.                        *)
(***************************************************************************)
MaxAppended == 3
MaxOthers == 3

\* slices.Sort, slices.Compact and newSet.
RECURSIVE SortInts(_)
SortInts(s) ==
    IF s = <<>> THEN <<>>
    ELSE LET i == CHOOSE j \in 1..Len(s) : \A k \in 1..Len(s) : s[j] <= s[k]
         IN <<s[i]>> \o SortInts(SubSeq(s, 1, i - 1) \o SubSeq(s, i + 1, Len(s)))
RECURSIVE Compact(_)
Compact(s) ==
    IF Len(s) < 2 THEN s
    ELSE IF s[1] = s[2] THEN Compact(Tail(s))
    ELSE <<s[1]>> \o Compact(Tail(s))
newSet(ts) == {ts[i] : i \in 1..Len(ts)}

\* (Variant: refreshDone is added first.)
refreshAuthorEdgesDoneFirst(authorID, workIDSToDenormalize) ==
    LET ids == Compact(SortInts(workIDSToDenormalize))
    IN <<Edge("refreshDone", authorID, {})>>
       \o (IF Len(ids) > 0 THEN <<Edge("authorEdge", authorID, newSet(ids))>> ELSE <<>>)

\* What the last goroutine of refreshAuthor adds, in order.
refreshAuthorEdges(authorID, workIDSToDenormalize) ==
    LET ids == Compact(SortInts(workIDSToDenormalize))
    IN (IF Len(ids) > 0 THEN <<Edge("authorEdge", authorID, newSet(ids))>> ELSE <<>>)
       \o <<Edge("refreshDone", authorID, {})>>

\* The work IDs a refresh may have appended, repeats included.
WorkIDLists == UNION {[1..n -> WorkIDs] : n \in 0..MaxAppended}

\* What other goroutines add meanwhile: authorEdges from denormalizeEditions
\* and from work refreshes, workEdges, the refreshDone of another refresh.
OtherEdges ==
    {Edge("authorEdge", a, {w}) : a \in 1..2, w \in WorkIDs}
    \cup {Edge("workEdge", w, {1}) : w \in WorkIDs}
    \cup {Edge("refreshDone", a, {}) : a \in 1..2}

\* The loop of refreshAuthor is over for this author, with these work IDs
\* appended: the goroutine that adds the edges starts.
RefreshEnds(authorID, workIDSToDenormalize) ==
    /\ order = NoOrder
    /\ order' = [pc |-> "run", author |-> authorID,
                 works |-> newSet(workIDSToDenormalize),
                 mine |-> refreshAuthorEdges(authorID, workIDSToDenormalize),
                 sent |-> <<>>, queue |-> <<>>, edge |-> NoEdge, adds |-> 0,
                 at |-> 0, worked |-> "no", rd |-> 0, rdone |-> "no"]
    /\ UNCHANGED <<main, recs, shelf, fetch, pipe, save, group, gauge>>

\* c.add by the refresh's goroutine: its next edge is pushed.
AddMine ==
    /\ order.pc = "run" /\ order.mine # <<>>
    /\ LET e == Head(order.mine)
           r == push(order.queue, e)
       IN order' = [order EXCEPT
             !.queue = r.queue, !.mine = Tail(@), !.sent = Append(@, e),
             !.at = IF e.kind = "authorEdge" THEN Existing(r.queue, e) ELSE @,
             !.worked = IF e.kind = "authorEdge" THEN "queued" ELSE @,
             !.rd = IF e.kind = "refreshDone" THEN Len(r.queue) ELSE @,
             !.rdone = IF e.kind = "refreshDone" THEN "queued" ELSE @]
    /\ UNCHANGED <<main, recs, shelf, fetch, pipe, save, group, gauge>>

\* c.add by another goroutine.
AddOther(e) ==
    /\ order.pc = "run" /\ order.adds < MaxOthers
    /\ order' = [order EXCEPT !.queue = push(order.queue, e).queue, !.adds = @ + 1]
    /\ UNCHANGED <<main, recs, shelf, fetch, pipe, save, group, gauge>>

\* Run takes the next edge off the buffer.
RunPop ==
    /\ order.pc = "run" /\ order.edge = NoEdge
    /\ LET r == pop(order.queue, FALSE)
       IN /\ r.ok
          /\ order' = [order EXCEPT
                !.queue = r.queue, !.edge = r.edge,
                !.at = IF @ > 0 THEN @ - 1 ELSE 0,
                !.worked = IF order.at = 1 THEN "run" ELSE @,
                !.rd = IF @ > 0 THEN @ - 1 ELSE 0,
                !.rdone = IF order.rd = 1 THEN "run" ELSE @]
    /\ UNCHANGED <<main, recs, shelf, fetch, pipe, save, group, gauge>>

\* Run is through with the edge: denormalizeWorks or denormalizeEditions has
\* returned, or persister.Delete has removed REFRESHING<id>.
RunDone ==
    /\ order.pc = "run" /\ order.edge # NoEdge
    /\ order' = [order EXCEPT !.edge = NoEdge,
                              !.worked = IF @ = "run" THEN "done" ELSE @,
                              !.rdone = IF @ = "run" THEN "done" ELSE @]
    /\ UNCHANGED <<main, recs, shelf, fetch, pipe, save, group, gauge>>

NextOrder ==
    \/ \E ids \in WorkIDLists : RefreshEnds(1, ids)
    \/ AddMine
    \/ \E e \in OtherEdges : AddOther(e)
    \/ RunPop
    \/ RunDone

SpecOrder == InitPersist /\ [][NextOrder]_vars

(***************************************************************************)
(* saveEditions, on its own: the Getter hands over the editions of a work, *)
(* the goroutine validates them one by one, writes the ones it keeps and   *)
(* adds the workEdge.  An edition is a work document wrapping its books,   *)
(* a book has its contributors and possibly a well-formed ASIN; loads is   *)
(* the set of authors GetAuthor succeeds for.                              *)
(***************************************************************************)
MaxGrBooks == 2

SaveAuthors == 1..2
Contributors == {<<>>} \cup {<<a>> : a \in SaveAuthors}
GrBook(id, contributors, asin) == [id |-> id, contributors |-> contributors, asin |-> asin]
GrBooksOf ==
    {<<>>, <<GrBook(1, <<1>>, FALSE), GrBook(2, <<1>>, FALSE)>>}
    \cup {<<GrBook(b, cs, z)>> : b \in 1..2, cs \in Contributors, z \in BOOLEAN}
GrWork(id, books, authors) == [id |-> id, books |-> books, authors |-> authors]
GrWorks == {GrWork(w, bs, as) : w \in WorkIDs, bs \in GrBooksOf, as \in Contributors}
GrLists == UNION {[1..n -> GrWorks] : n \in 0..MaxGrBooks}

asinKey(id) == <<"z", id>>
SaveKeys == {BookKey(b) : b \in 1..2} \cup {asinKey(b) : b \in 1..2}
asinTTL == 8760

\* One turn of the loop.  st is [c, grWorkID, grBookIDs].
\* (Variant: the first contributor is not compared with the author.)
saveEditionAnyContributor(st, w, loads, ttl) ==
    IF Len(w.books) # 1 THEN st
    ELSE LET st1 == IF st.grWorkID = 0 THEN [st EXCEPT !.grWorkID = w.id] ELSE st
             book == w.books[1]
             c2 == IF book.asin THEN CacheSet(st1.c, asinKey(book.id), book.id, asinTTL)
                   ELSE st1.c
         IN IF w.id # st1.grWorkID THEN st1
            ELSE IF Len(w.authors) = 0 THEN st1
            ELSE IF w.authors[1] \notin loads THEN st1
            ELSE IF Len(book.contributors) = 0 THEN [st1 EXCEPT !.c = c2]
            ELSE [st1 EXCEPT !.c = CacheSet(c2, BookKey(book.id), w, ttl),
                             !.grBookIDs = Append(@, book.id)]

saveEdition(st, w, loads, ttl) ==
    IF Len(w.books) # 1 THEN st
    ELSE LET st1 == IF st.grWorkID = 0 THEN [st EXCEPT !.grWorkID = w.id] ELSE st
             book == w.books[1]
             c2 == IF book.asin THEN CacheSet(st1.c, asinKey(book.id), book.id, asinTTL)
                   ELSE st1.c
         IN IF w.id # st1.grWorkID THEN st1
            ELSE IF Len(w.authors) = 0 THEN st1
            ELSE IF w.authors[1] \notin loads THEN st1
            ELSE IF Len(book.contributors) = 0 THEN [st1 EXCEPT !.c = c2]
            ELSE IF book.contributors[1] # w.authors[1] THEN [st1 EXCEPT !.c = c2]
            ELSE [st1 EXCEPT !.c = CacheSet(c2, BookKey(book.id), w, ttl),
                             !.grBookIDs = Append(@, book.id)]

RECURSIVE saveEditionsLoop(_, _, _, _)
saveEditionsLoop(st, grBooks, loads, ttl) ==
    IF grBooks = <<>> THEN st
    ELSE saveEditionsLoop(saveEdition(st, Head(grBooks), loads, ttl), Tail(grBooks),
                          loads, ttl)

\* saveEditions up to its c.add: the cache as written and the edge to add
\* (none if nothing was kept).
saveEditions(c, grBooks, loads, ttl) ==
    LET st == saveEditionsLoop([c |-> c, grWorkID |-> 0, grBookIDs |-> <<>>], grBooks,
                               loads, ttl)
    IN [c |-> st.c,
        edges |-> IF st.grWorkID = 0 \/ Len(st.grBookIDs) = 0 THEN <<>>
                  ELSE <<Edge("workEdge", st.grWorkID, newSet(st.grBookIDs))>>]

\* The Getter calls saveEditions: the goroutine runs its loop.
SaveEditions(grBooks, loads) ==
    /\ save = NoSave
    /\ \E ttl \in fuzz(editionTTL, 2, 1) :
          LET r == saveEditions([k \in SaveKeys |-> NoEntry], grBooks, loads, ttl)
          IN save' = [pc |-> IF r.edges = <<>> THEN "done" ELSE "add",
                      grBooks |-> grBooks, loads |-> loads, c |-> r.c,
                      edges |-> r.edges, queue |-> <<>>]
    /\ UNCHANGED <<main, recs, shelf, fetch, pipe, order, group, gauge>>

\* c.add: the workEdge goes into the buffer, and the goroutine ends.
SaveAdd ==
    /\ save.pc = "add"
    /\ save' = [save EXCEPT !.pc = "done", !.edges = Tail(@),
                            !.queue = push(@, Head(save.edges)).queue]
    /\ UNCHANGED <<main, recs, shelf, fetch, pipe, order, group, gauge>>

NextSave ==
    \/ \E grBooks \in GrLists, loads \in SUBSET SaveAuthors : SaveEditions(grBooks, loads)
    \/ SaveAdd

SpecSave == InitPersist /\ [][NextSave]_vars

(***************************************************************************)
(* The singleflight group of the public operations, on its own: callers    *)
(* enter group.Do on the key their operation passes, join the flight on    *)
(* that key if there is one, and get what the flight's function returns.   *)
(* Keys are strings here, as they are in the cache.                        *)
(***************************************************************************)
MaxCallers == 2
MaxAdds == 3

Ops == {"GetBook", "GetWork", "GetAuthor", "GetSeries", "GetASIN"}
GroupIDs == 1..2
ASINs == {"B00AAAAAA1", "b1"}
Args(op) == IF op = "GetASIN" THEN ASINs ELSE GroupIDs

\* The cache key of what an operation serves.
cacheKey(op, arg) ==
    CASE op = "GetBook" -> "b" \o ToString(arg)
      [] op = "GetWork" -> "w" \o ToString(arg)
      [] op = "GetAuthor" -> "a" \o ToString(arg)
      [] op = "GetSeries" -> "s" \o ToString(arg)
      [] op = "GetASIN" -> "z" \o arg

\* The key an operation passes to c.group.Do.
groupKey(op, arg) == IF op = "GetASIN" THEN arg ELSE cacheKey(op, arg)

\* What the operation asserts the result of group.Do to be.
Asserted(op) ==
    CASE op = "GetSeries" -> "[]byte"
      [] op = "GetASIN" -> "int64"
      [] OTHER -> "ttlpair"

NoCaller == [pc |-> "idle", op |-> "none", arg |-> 0, key |-> "", from |-> <<>>]

\* The controller is up, nobody has called yet.
GroupUp ==
    /\ group = NoGroup
    /\ group' = [pc |-> "up", calls |-> [p \in 1..MaxCallers |-> NoCaller], flights |-> {}]
    /\ UNCHANGED <<main, recs, shelf, fetch, pipe, order, save, gauge>>

\* A caller enters c.group.Do: it starts the flight on its key, or joins
\* the one there is.
Enter(p, op, arg) ==
    /\ group.pc = "up" /\ group.calls[p].pc = "idle"
    /\ LET key == groupKey(op, arg)
       IN group' = [group EXCEPT
             !.calls[p] = [pc |-> "wait", op |-> op, arg |-> arg, key |-> key,
                           from |-> <<>>],
             !.flights = IF \E f \in group.flights : f.key = key THEN @
                         ELSE @ \cup {[key |-> key, op |-> op, arg |-> arg]}]
    /\ UNCHANGED <<main, recs, shelf, fetch, pipe, order, save, gauge>>

\* The flight's function returns: every caller waiting on the key gets its
\* result and asserts its type (a failed assertion is a panic).
FlightReturns ==
    /\ group.pc = "up"
    /\ \E f \in group.flights : group' = [group EXCEPT
          !.flights = @ \ {f},
          !.calls = [p \in 1..MaxCallers |->
                        LET call == group.calls[p]
                        IN IF call.pc = "wait" /\ call.key = f.key
                           THEN [call EXCEPT !.from = <<f.op, f.arg>>,
                                             !.pc = IF Asserted(f.op) = Asserted(call.op)
                                                    THEN "done" ELSE "panic"]
                           ELSE call]]
    /\ UNCHANGED <<main, recs, shelf, fetch, pipe, order, save, gauge>>

NextGroup ==
    \/ GroupUp
    \/ \E p \in 1..MaxCallers, op \in Ops : \E arg \in Args(op) : Enter(p, op, arg)
    \/ FlightReturns

SpecGroup == InitPersist /\ [][NextGroup]_vars

(***************************************************************************)
(* The denormalization queue at the grain of its statements: goroutines    *)
(* blocked in add on the unbuffered denormC, the goroutine of groupEdges   *)
(* that relays denormC to ch, the goroutine of group that pushes and then  *)
(* raises the gauge, and Run, which pops, runs the body of its loop and    *)
(* then lowers the gauge.                                                  *)
(***************************************************************************)
GaugeEdges ==
    {Edge("workEdge", 1, {c}) : c \in 1..2}
    \cup {Edge("authorEdge", 1, {c}) : c \in 1..2}
    \cup {Edge("refreshDone", 1, {})}

GaugeUp == gauge.pc = "up"

\* A send on denormC that waits for its receiver.
Send(by, e) == [by |-> by, edge |-> e]

\* go func() { c.add(e) }(): a goroutine of its own makes the send.
addApart(st, e) == [st EXCEPT !.senders = @ \cup {Send("go", e)}]

\* Run is in a send of its own on denormC.
RunSends == \E s \in gauge.senders : s.by = "run"

\* NewController and the start of Run: nothing sent, buffered or counted.
GrouperUp ==
    /\ gauge = NoGauge
    /\ gauge' = [pc |-> "up", senders |-> {}, ch |-> NoEdge, fwd |-> "recv",
                 added |-> 0, queue |-> <<>>, cur |-> NoEdge, n |-> 0, sent |-> 0]
    /\ UNCHANGED <<main, recs, shelf, fetch, pipe, order, save, group>>

\* A goroutine started by a request, a refresh task or saveEditions adds.
GoAdd(e) ==
    /\ GaugeUp
    /\ gauge.sent < MaxAdds
    /\ Send("go", e) \notin gauge.senders
    /\ gauge' = [addApart(gauge, e) EXCEPT !.sent = @ + 1]
    /\ UNCHANGED <<main, recs, shelf, fetch, pipe, order, save, group>>

\* The goroutine of groupEdges receives from denormC; it then holds the
\* edge until the goroutine of group takes it from ch.
Relay ==
    /\ GaugeUp
    /\ gauge.ch = NoEdge
    /\ \E s \in gauge.senders :
          gauge' = [gauge EXCEPT !.senders = @ \ {s}, !.ch = s.edge]
    /\ UNCHANGED <<main, recs, shelf, fetch, pipe, order, save, group>>

\* The goroutine of group receives from ch and pushes.
GroupPush ==
    /\ GaugeUp
    /\ gauge.fwd = "recv"
    /\ gauge.ch # NoEdge
    /\ LET r == push(gauge.queue, gauge.ch)
       IN gauge' = [gauge EXCEPT !.queue = r.queue, !.added = r.added,
                                 !.fwd = "count", !.ch = NoEdge]
    /\ UNCHANGED <<main, recs, shelf, fetch, pipe, order, save, group>>

\* ... and then raises the gauge by what push added.
GroupCount ==
    /\ GaugeUp
    /\ gauge.fwd = "count"
    /\ gauge' = [gauge EXCEPT !.n = @ + gauge.added, !.added = 0, !.fwd = "recv"]
    /\ UNCHANGED <<main, recs, shelf, fetch, pipe, order, save, group>>

\* Run is back at the top of its loop: pop.
RunPops ==
    /\ GaugeUp
    /\ gauge.cur = NoEdge
    /\ ~RunSends
    /\ LET r == pop(gauge.queue, FALSE)
       IN /\ ~r.wait
          /\ gauge' = [gauge EXCEPT !.queue = r.queue, !.cur = r.edge]
    /\ UNCHANGED <<main, recs, shelf, fetch, pipe, order, save, group>>

\* (Variant: the loop itself sends the edge, and waits for the receiver.)
RunBodyInline(st, changed) ==
    IF st.cur.kind = "workEdge" /\ changed
    THEN [st EXCEPT !.senders = @ \cup {Send("run", Edge("authorEdge", 2, {st.cur.parentID}))}]
    ELSE st

\* The body of Run's loop for the edge popped.  A work edge that changed
\* the work has the work's author (author 2, whom no one else names here)
\* updated.
RunBody(st, changed) ==
    IF st.cur.kind = "workEdge" /\ changed
    THEN addApart(st, Edge("authorEdge", 2, {st.cur.parentID}))
    ELSE st

\* The body is run, and then the gauge is lowered by the edge's children.
RunYields ==
    /\ GaugeUp
    /\ gauge.cur # NoEdge
    /\ ~RunSends
    /\ \E changed \in BOOLEAN :
          gauge' = [RunBody(gauge, changed) EXCEPT
                       !.n = @ - Cardinality(gauge.cur.childIDs),
                       !.cur = NoEdge]
    /\ UNCHANGED <<main, recs, shelf, fetch, pipe, order, save, group>>

NextGauge ==
    \/ GrouperUp
    \/ \E e \in GaugeEdges : GoAdd(e)
    \/ Relay
    \/ GroupPush
    \/ GroupCount
    \/ RunPops
    \/ RunYields

SpecGauge == InitPersist /\ [][NextGauge]_vars

(***************************************************************************)
(* Properties.                                                             *)
(***************************************************************************)
\* C1: concurrent GetAuthor(id) callers on a cold cache share one flight.  A
\* caller that arrives while the flight is on waits for it and invokes
\* nothing; the flight's one Getter call then returns, and every caller
\* waiting on it gets the result of that call (bytes and TTL, or error).
C1_SingleFlight ==
    [][\A a \in AuthorIDs :
          LET k == AuthorKey(a)
              waiters == {p \in ClientIDs : tasks[p].pc = "wait" /\ tasks[p].key = k}
          IN /\ \A p \in ClientIDs :
                   (tasks[p].pc = "call" /\ tasks[p].key = k /\ flights[k].on
                        /\ tasks'[p] # tasks[p])
                   => tasks'[p].pc = "wait" /\ flights' = flights /\ cache' = cache
             /\ waiters # {} => flights[k].on
             /\ (\E p \in waiters : tasks'[p] # tasks[p])
                => /\ ~flights'[k].on
                   /\ \E o \in {AllOk} \cup Failures({}, {}, TRUE), ttl \in fuzz(authorTTL, 3, 2) :
                         LET f == getAuthor(cache, flights[k].seen, up, o, ttl, persister, a)
                         IN /\ cache' = f.c
                            /\ \A q \in waiters :
                                  tasks'[q].pc = "done" /\ tasks'[q].ret = f.ret]_vars

\* Two clients asked for the same author at once, one started the flight, the
\* other joined it, and both hold the same successful answer.
C1_Witness ==
    \E p, q \in ClientIDs, a \in AuthorIDs :
        /\ tasks[p].pc = "done" /\ tasks[q].pc = "done"
        /\ tasks[p].key = AuthorKey(a) /\ tasks[q].key = AuthorKey(a)
        /\ tasks[p].phase = "started" /\ tasks[q].phase = "joined"
        /\ tasks[p].ret = tasks[q].ret
        /\ tasks[p].ret.err = "nil"

\* C2: after the Getter answers not-found for a book, work or author, the
\* MISSING sentinel is stored under its key with missingTTL, and while that
\* entry lives a call for the same id returns not-found straight away: no
\* flight starts and nothing is written.
C2_NegativeCache ==
    [][\A k \in FlightKeys, p \in ClientIDs :
          /\ (tasks[p].pc = "wait" /\ tasks[p].key = k /\ tasks'[p].pc = "done"
                  /\ tasks'[p].ret.err = "notfound")
             => cache'[k] = [ok |-> TRUE, val |-> Missing, ttl |-> missingTTL]
          /\ (tasks[p].pc = "call" /\ tasks[p].key = k /\ tasks'[p] # tasks[p]
                  /\ Live(cache, k) /\ cache[k].val = Missing)
             => /\ tasks'[p].pc = "done"
                /\ tasks'[p].ret.err = "notfound"
                /\ flights' = flights
                /\ cache' = cache]_vars

\* A client was told not-found straight from the live MISSING entry.
C2_Witness ==
    \E p \in ClientIDs, k \in FlightKeys :
        /\ tasks[p].pc = "done" /\ tasks[p].key = k /\ tasks[p].phase = "now"
        /\ tasks[p].ret.err = "notfound"
        /\ Live(cache, k) /\ cache[k] = [ok |-> TRUE, val |-> Missing, ttl |-> missingTTL]

StrictlyAscending(ids) == \A i \in 1..(Len(ids) - 1) : ids[i] < ids[i + 1]

\* What a GetWork(w) / GetAuthor(a) served from the cache holds: edition e is
\* among w's books, which ascend; work w with edition e is among a's works.
WorkHolds(w, e) ==
    LET r == readThrough(cache, WorkKey(w))
    IN /\ r.hit /\ r.ret.err = "nil" /\ Decodable(r.ret.bytes)
       /\ \E i \in 1..Len(r.ret.bytes.books) : r.ret.bytes.books[i] = e
       /\ StrictlyAscending(r.ret.bytes.books)
AuthorHolds(a, w, e) ==
    LET r == readAuthor(cache, a)
    IN /\ r.hit /\ r.ret.err = "nil" /\ Decodable(r.ret.bytes)
       /\ \E i \in 1..Len(r.ret.bytes.works) :
             /\ r.ret.bytes.works[i].id = w
             /\ \E j \in 1..Len(r.ret.bytes.works[i].books) :
                   r.ret.bytes.works[i].books[j] = e

\* A client's GetBook went to the Getter and succeeded, and all has settled.
BookLoaded(p) ==
    /\ Settled
    /\ tasks[p].pc = "done" /\ tasks[p].key[1] = "b" /\ tasks[p].phase = "started"
    /\ tasks[p].ret.err = "nil"

\* C3: once a client's GetBook(b) has fetched a newly seen edition, and the
\* queue has settled with no upstream call having failed on the way, the
\* work served for it holds the edition, its books ascending, and the author
\* served holds the work with the edition among its books.
C3_Denormalized ==
    \A p \in ClientIDs :
        (BookLoaded(p) /\ nfail = 0)
        => LET doc == tasks[p].ret.bytes
           IN /\ WorkHolds(doc.id, doc.books[1])
              /\ AuthorHolds(doc.authors[1], doc.id, doc.books[1])

Range(ids) == {ids[i] : i \in 1..Len(ids)}

\* The editions of work w as cached (none if w has no document).
BooksOf(c, w) ==
    IF c[WorkKey(w)].ok /\ Decodable(c[WorkKey(w)].val) THEN c[WorkKey(w)].val.books
    ELSE <<>>

\* The loop takes a workEdge off the queue and denormalizeEditions gets as
\* far as the ETag comparison.
WorkEdgeStep ==
    /\ run.pc = "idle" /\ queue # <<>> /\ Head(queue).kind = "workEdge"
    /\ queue' = Tail(queue)
    /\ run'.etag # "none"

\* The editions the step starts from: those of the live entry, else those of
\* the document the Getter loads (the work's best edition).
Preexisting(w) ==
    IF Live(cache, WorkKey(w)) THEN Range(BooksOf(cache, w))
    ELSE {up.canon[up.best[w]]}

\* C4 as stated: after a workEdge(w, children) step in which no upstream
\* call failed, the work's books are the pre-existing editions and the
\* children, strictly ascending.
C4_UnionOfChildren ==
    [][(WorkEdgeStep /\ nfail' = nfail)
       => LET e == Head(queue)
          IN /\ Range(BooksOf(cache', e.parentID)) = Preexisting(e.parentID) \cup e.childIDs
             /\ StrictlyAscending(BooksOf(cache', e.parentID))]_vars

\* C4, amended: after a workEdge(w, children) step the work's books are
\* strictly ascending and consist of the pre-existing editions and editions
\* the Getter answers for the children (for a merged child the edition it
\* was merged into); every child has its edition there unless its load
\* failed upstream in the step or its cache entry holds the MISSING
\* sentinel.
C4_UnionOfLoaded ==
    [][WorkEdgeStep
       => LET e == Head(queue)
              loaded == {up.canon[b] : b \in e.childIDs}
              skipped == {b \in e.childIDs : Live(cache, BookKey(b))
                                              /\ ~Decodable(cache[BookKey(b)].val)}
              books == BooksOf(cache', e.parentID)
          IN /\ StrictlyAscending(books)
             /\ Preexisting(e.parentID) \subseteq Range(books)
             /\ Range(books) \subseteq Preexisting(e.parentID) \cup loaded
             /\ nfail' = nfail
                => \A b \in e.childIDs \ skipped : up.canon[b] \in Range(books)]_vars

\* Two workEdges were fed for work 1 and processed one after the other; the
\* work now lists all three editions in order.
C4_Witness ==
    /\ fed = Edge("workEdge", 1, {}) /\ nreq = MaxEdges
    /\ run.pc = "idle" /\ run.edge.kind = "workEdge" /\ run.etag = "mismatch"
    /\ Cardinality(run.edge.childIDs) = 1
    /\ queue = <<>>
    /\ BooksOf(cache, 1) = <<1, 2, 3>>

\* C5: a workEdge(w, children) step on a work that a previous step already
\* wrote with these children (the same edge processed again) finds the
\* ETags equal: the entry under w<id> stays as it is and no goroutine is
\* started to enqueue an authorEdge.
C5_Idempotent ==
    [][(/\ WorkEdgeStep
        /\ Live(cache, WorkKey(Head(queue).parentID))
        /\ Decodable(cache[WorkKey(Head(queue).parentID)].val)
        /\ cache[WorkKey(Head(queue).parentID)].val.nl
        /\ \A b \in Head(queue).childIDs :
              up.canon[b] \in Range(BooksOf(cache, Head(queue).parentID)))
       => /\ run'.etag = "match"
          /\ cache'[WorkKey(Head(queue).parentID)] = cache[WorkKey(Head(queue).parentID)]
          /\ tasks' = tasks]_vars

\* The second of two workEdges fed for a work was processed after the work
\* had been written, and matched.
C5_Witness ==
    /\ fed.kind = "workEdge" /\ nreq = MaxEdges
    /\ run.pc = "idle" /\ run.edge.kind = "workEdge" /\ run.etag = "match"
    /\ run.edge.childIDs \subseteq Range(BooksOf(cache, run.edge.parentID))
    /\ cache[WorkKey(run.edge.parentID)].val.nl
    /\ queue = <<>>

\* C6: when editions X and Y of an edge's children are answered with the
\* same edition X (Y was merged into X), the step leaves the work with
\* exactly one entry X and none for Y.
C6_MergedEditions ==
    [][WorkEdgeStep
       => \A x, y \in Head(queue).childIDs :
             (x # y /\ up.canon[x] = x /\ up.canon[y] = x /\ nfail' = nfail)
             => LET books == BooksOf(cache', Head(queue).parentID)
                IN /\ Cardinality({i \in 1..Len(books) : books[i] = x}) = 1
                   /\ \A i \in 1..Len(books) : books[i] # y]_vars

\* An edge naming a merged edition and the edition it was merged into was
\* processed, and the work was written.
C6_Witness ==
    /\ run.pc = "idle" /\ run.edge.kind = "workEdge" /\ run.etag = "mismatch"
    /\ \E x, y \in run.edge.childIDs : x # y /\ up.canon[x] = x /\ up.canon[y] = x
    /\ BooksOf(cache, run.edge.parentID) = <<1>>

\* C7: every author document in the cache lists its works strictly
\* ascending by foreign ID, so no work twice, also when two of the work IDs
\* of an edge are answered with the same (merged) work.
C7_WorksAscending ==
    \A a \in AuthorIDs :
        \A k \in {AuthorKey(a), refreshAuthorKey(a)} :
            (cache[k].ok /\ Decodable(cache[k].val))
            => StrictlyAscending(IDsOf(cache[k].val.works))

\* An authorEdge naming a merged work and the work it was merged into was
\* processed: the author was written, with the one work.
C7_Witness ==
    /\ run.pc = "idle" /\ run.edge = Edge("authorEdge", 1, {1, 2})
    /\ run.etag = "mismatch"
    /\ up.best[1] = up.best[2]
    /\ Live(cache, AuthorKey(1))
    /\ IDsOf(cache[AuthorKey(1)].val.works) = <<1>>

\* C8: a GetAuthor(id) call made while REFRESHING<id> exists (here by one of
\* the background goroutines) is answered straight away, with no flight
\* started, by that snapshot and a TTL of one hour.
C8_SnapshotServed ==
    [][\A a \in AuthorIDs, p \in Procs :
          (/\ tasks[p].pc = "call" /\ tasks[p].key = AuthorKey(a)
           /\ cache[refreshAuthorKey(a)].ok
           /\ tasks'[p] # tasks[p])
          => /\ flights' = flights
             /\ cache' = cache
             /\ tasks'[p] = Resume(How(tasks[p], "now"),
                                    ttlpair(cache[refreshAuthorKey(a)].val, hourTTL, "nil"))]_vars

\* The works upstream has for the author's editions.
UpWorks(a) ==
    {up.workOf[up.canon[UpAuthorBooks(up, a)[i]]] : i \in 1..Len(UpAuthorBooks(up, a))}

AuthorHasWork(a, w) ==
    LET r == readAuthor(cache, a)
    IN /\ r.hit /\ r.ret.err = "nil" /\ Decodable(r.ret.bytes)
       /\ \E i \in 1..Len(r.ret.bytes.works) : r.ret.bytes.works[i].id = w

\* The loop has just processed the refreshDone edge of author a.
RefreshDone(a) == run.pc = "idle" /\ run.edge = Edge("refreshDone", a, {})

\* C9: when the refreshDone edge of an author's refresh has been processed,
\* and no upstream call failed (so every work of the author's editions was
\* loaded), REFRESHING<id> is gone and GetAuthor(id) serves a document that
\* has each of those works.
C9_RefreshComplete ==
    \A a \in AuthorIDs :
        (RefreshDone(a) /\ nfail = 0)
        => /\ ~cache[refreshAuthorKey(a)].ok
           /\ \A w \in UpWorks(a) : AuthorHasWork(a, w)

\* A refresh task of author a is running.
Refreshing(a) == \E p \in TaskIDs : tasks[p].kind = "authorRefresh" /\ tasks[p].subj = a

\* C10: every author refresh that starts is followed by the processing of a
\* refreshDone edge for the author, which deletes REFRESHING<id>, whatever
\* failed upstream on the way.
C10_RefreshFinishes ==
    \A a \in AuthorIDs :
        Refreshing(a) ~> (RefreshDone(a) /\ ~cache[refreshAuthorKey(a)].ok)

\* A refresh whose loads failed upstream has finished.
C10_Witness ==
    /\ RefreshDone(1) /\ nfail > 0
    /\ ~cache[refreshAuthorKey(1)].ok
    /\ Live(cache, AuthorKey(1)) /\ Decodable(cache[AuthorKey(1)].val)
    /\ ~AuthorHasWork(1, 2)

\* C11: when the process restarts while REFRESHING<id> exists, the new
\* controller's recovery submits exactly one refresh for that author, and no
\* other step submits a refresh for an author whose REFRESHING entry exists.
C11_ResumedOnce ==
    [][\A a \in RefreshIDs :
          rows[a] # 0 =>
             IF resumed.pc = "recover" /\ resumed'.pc = "done"
             THEN Count(refreshes, a) = 0 => Count(refreshes', a) = 1
             ELSE Count(refreshes', a) <= Count(refreshes, a)]_vars

\* C20: Persisted returns every author persisted and not deleted, each
\* exactly once, in the order of the stored timestamps.
C20_PersistedFIFO ==
    [][(resumed.pc = "recover" /\ resumed'.pc = "done") =>
          LET ids == resumed'.ids
          IN /\ \A a \in RefreshIDs : rows[a] # 0 => Count(ids, a) = 1
             /\ \A i \in 1..Len(ids) : rows[ids[i]] # 0
             /\ \A i \in 1..Len(ids), j \in 1..Len(ids) :
                   i < j => rows[ids[i]] <= rows[ids[j]]]_vars

\* C12: GetAuthor for a denylisted author answers not-found with the missing
\* TTL in the one step of the call: no flight is entered, the cache is left
\* as it is and no upstream call is made.
C12_Denylist ==
    [][\A p \in ClientIDs :
          (/\ tasks[p].pc = "call"
           /\ tasks[p].key[1] = "a" /\ unknownAuthor(tasks[p].key[2])
           /\ tasks'[p] # tasks[p])
          => /\ tasks'[p].pc = "done"
             /\ tasks'[p].ret = ttlpair(NilBytes, missingTTL, "notfound")
             /\ flights' = flights
             /\ cache' = cache
             /\ nfail' = nfail
             /\ queue' = queue]_vars

\* Both clients have asked for the denylisted author and have their answer.
C12_Witness ==
    \A p \in ClientIDs :
       /\ tasks[p].kind = "client" /\ tasks[p].pc = "done"
       /\ tasks[p].key = AuthorKey(22294257)
       /\ tasks[p].ret.err = "notfound"

\* The flight on k ends in this step with an error that is not not-found:
\* a client waiting on it, or the loop, gets that error.
Errored(k) ==
    /\ flights[k].on /\ ~flights'[k].on
    /\ \/ \E p \in ClientIDs : /\ tasks[p].pc = "wait" /\ tasks[p].key = k
                                /\ tasks'[p].ret.err = "ratelimited"
       \/ /\ run.pc = "wait" /\ AuthorKey(run.edge.parentID) = k
          /\ run'.ret.err = "ratelimited"

KeyOf(e) == <<e.kind, e.parentID>>
BufferKeys == {KeyOf(e) : e \in {e \in BufferEdges : e.kind # "refreshDone"}}
LastPop(k) ==
    LET at == {i \in 1..Len(ops) : ops[i].op = "pop" /\ KeyOf(ops[i].edge) = k}
    IN IF at = {} THEN 0 ELSE CHOOSE i \in at : \A j \in at : j <= i
Since(k) ==
    {i \in 1..Len(ops) : i > LastPop(k) /\ ops[i].op = "push" /\ KeyOf(ops[i].edge) = k}
Pending(k) == {i \in 1..Len(queue) : KeyOf(queue[i]) = k}

\* C14: a key has a queue entry exactly if it was pushed since it was last
\* popped, never more than one, and the entry's children are the union of
\* the children of those pushes.
C14_Coalesced ==
    \A k \in BufferKeys :
       /\ Cardinality(Pending(k)) <= 1
       /\ Pending(k) # {} <=> Since(k) # {}
       /\ \A i \in Pending(k) :
             queue[i].childIDs = UNION {ops[j].edge.childIDs : j \in Since(k)}

\* Two pushes for one key, with another key pushed in between, are one entry.
C14_Witness ==
    /\ Len(ops) = 3 /\ Len(queue) = 2
    /\ queue[1] = Edge("authorEdge", 1, {1, 2})
    /\ ops[2].edge.kind = "workEdge"

\* The place in the log of the push that gave the i-th queue entry its place:
\* the first push of its key since the key was last popped; for a
\* refreshDone, which is never merged, the push that is as far from the
\* last as the entry is from the last pending one.
PushedAt(i) ==
    LET k == KeyOf(queue[i])
    IN IF queue[i].kind # "refreshDone"
       THEN CHOOSE j \in Since(k) : \A x \in Since(k) : j <= x
       ELSE LET all == Sorted({j \in 1..Len(ops) :
                                  ops[j].op = "push" /\ KeyOf(ops[j].edge) = k})
                later == Cardinality({x \in Pending(k) : x > i})
            IN all[Len(all) - later]
FirstPushOrder ==
    \A i \in 1..Len(queue), j \in 1..Len(queue) : i < j => PushedAt(i) < PushedAt(j)

\* C15: the queue is in the order of the first push of each pending key,
\* whatever was merged into the entries since, and pop takes the head.
C15_FIFO ==
    [][/\ FirstPushOrder'
       /\ (Len(ops') > Len(ops) /\ ops'[Len(ops')].op = "pop")
             => /\ queue # <<>>
                /\ ops'[Len(ops')].edge = Head(queue)
                /\ queue' = Tail(queue)]_vars

\* A key pushed, another pushed, the first pushed again: the first is
\* popped first, with both its children, and the other is left.
C15_Witness ==
    /\ Len(ops) = 4
    /\ ops[1] = Op("push", Edge("authorEdge", 1, {1}))
    /\ ops[2] = Op("push", Edge("authorEdge", 2, {1}))
    /\ ops[3] = Op("push", Edge("authorEdge", 1, {2}))
    /\ ops[4] = Op("pop", Edge("authorEdge", 1, {1, 2}))
    /\ queue = <<Edge("authorEdge", 2, {1})>>

\* The children pending in a queue.
RECURSIVE Children(_)
Children(q) == IF q = <<>> THEN 0 ELSE Cardinality(Head(q).childIDs) + Children(Tail(q))

\* C16: len(), the size counter, is the number of children pending in the
\* queue: a push raises it by the children new to the key, a pop lowers it
\* by the children of the popped entry.
C16_LenCountsChildren ==
    /\ size = Children(queue)
    /\ size >= 0

\* The same child pushed twice for a key counts once; two more are pending.
C16_Witness ==
    /\ Len(ops) = 4 /\ \A i \in 1..4 : ops[i].op = "push"
    /\ ops[1] = ops[2]
    /\ Len(queue) = 2
    /\ size = 3

\* Everything pushed has been popped.
Drained ==
    /\ \A k \in BufferKeys : Since(k) = {}
    /\ Cardinality({j \in 1..Len(ops) : ops[j].op = "push" /\ ops[j].edge.kind = "refreshDone"})
       = Cardinality({j \in 1..Len(ops) : ops[j].op = "pop" /\ ops[j].edge.kind = "refreshDone"})

\* C17: the consumer gets nothing from an empty open buffer; after the
\* close it still gets the queued entries, head first, and the sequence
\* ends only when the buffer is closed and everything pushed was yielded.
C17_DrainedAtClose ==
    [][/\ (queue = <<>> /\ ~closed) => (ended' = ended /\ Len(ops') >= Len(ops)
                                          /\ \A i \in 1..Len(ops') : ops'[i].op # "pop"
                                                                        \/ i <= Len(ops))
       /\ (closed /\ queue # <<>>) => (~ended' /\ queue' = Tail(queue)
                                       /\ ops' = Append(ops, Op("pop", Head(queue))))
       /\ (ended' /\ ~ended) => (closed /\ queue = <<>> /\ Drained)]_vars

\* The sequence has ended, and an edge was yielded after the close.
C17_Witness ==
    /\ ended
    /\ \E i \in 1..Len(ops), j \in 1..Len(ops) :
          i < j /\ ops[i].op = "close" /\ ops[j].op = "pop"

\* Two titles that differ in case at most.
SameTitle(t, u) == t = u \/ {t, u} = {"Foo", "FOO"}

\* The work at idx shares the title it is counted under, whatever the case,
\* with another work of the author.
Shared(works, idx) ==
    \E j \in 1..Len(works) :
       j # idx /\ SameTitle(shortTitle(works[j]), shortTitle(works[idx]))

C19_Incremental ==
    [][\A i \in 1..Len(authorWorks') :
          LET w == authorWorks'[i]
              earlier == {j \in 1..Len(authorWorks) :
                            /\ authorWorks[j].id # w.id
                            /\ authorWorks[j].Title = authorWorks[j].FullTitle
                            /\ SameTitle(shortTitle(lib[authorWorks[j].id]),
                                         shortTitle(lib[w.id]))}
          IN (/\ \A j \in 1..Len(authorWorks) : authorWorks[j].id # w.id
              /\ earlier # {}
              /\ w.FullTitle # "")
             => /\ w.Title = w.FullTitle
                /\ \A j \in earlier :
                      \E x \in 1..Len(authorWorks') :
                         /\ authorWorks'[x].id = authorWorks[j].id
                         /\ authorWorks'[x].Title = authorWorks[j].FullTitle]_vars


\* C21: cancelling the context of a GetBook request does not keep the
\* edition it fetched from being denormalized: when no upstream call has
\* failed, the goroutine that getBook started for the edition ends only by
\* enqueuing workEdge(work, {edition}).
C21_DenormSurvivesCancel ==
    [][\A p \in TaskIDs :
          (tasks[p].kind = "bookDenorm" /\ tasks'[p].kind # "bookDenorm" /\ nfail' = 0)
          => tasks'[p] = Enqueuer(<<Edge("workEdge", tasks[p].wid, {tasks[p].subj})>>)]_vars

\* C22: what Recommendations returns is exactly the delivered work IDs for
\* which GetWork succeeds: the failing ones dropped, the others all kept.
C22_RecommendationsFiltered ==
    recs.pc = "returned"
    => Range(recs.out) = {id \in Range(recs.delivered) : id \in recs.good}

\* C23: when the Getter answers not-found for a series, GetSeries leaves
\* MISSING under s<id> with the missing TTL, and the GetSeries call for the
\* same id made next returns not-found without invoking the Getter.
C23_SeriesNegativeCache ==
    shelf.pc = "on" =>
       /\ (shelf.last.invoked /\ shelf.last.err = "notfound")
          => shelf.c[seriesKey(shelf.last.id)]
             = [ok |-> TRUE, val |-> Missing, ttl |-> missingTTL]
       /\ (shelf.before.invoked /\ shelf.before.err = "notfound"
              /\ shelf.last.id = shelf.before.id)
          => (shelf.last.err = "notfound" /\ ~shelf.last.invoked)

\* C24: a GetBook, GetWork or GetAuthor call that finds the MISSING
\* sentinel under its key with a TTL still positive (and, for an author, no
\* REFRESHING entry before it) returns not-found together with the TTL that
\* entry has left.
C24_MissingTTL ==
    [][\A k \in FlightKeys, p \in ClientIDs :
          (/\ tasks[p].pc = "call" /\ tasks[p].key = k /\ tasks'[p] # tasks[p]
           /\ ~flights[k].on
           /\ Live(cache, k) /\ cache[k].val = Missing
           /\ k[1] = "a" => ~cache[refreshAuthorKey(k[2])].ok)
          => /\ tasks'[p].pc = "done"
             /\ tasks'[p].ret.err = "notfound"
             /\ tasks'[p].ret.ttl = cache[k].ttl]_vars

\* C25: a refresh task makes at most 1,000 GetBook calls, however many
\* editions GetAuthorBooks yields and however many of the calls fail or are
\* skipped for author mismatch.
C25_AtMostThousand ==
    fetch.pc # "none" => fetch.calls <= maxEditions

\* The loop takes an edge of the given kind off the queue and is done with
\* it in the same step.
EdgeStep(kind) ==
    /\ run.pc = "idle" /\ queue # <<>> /\ Head(queue).kind = kind
    /\ queue' = Tail(queue)
    /\ run'.pc = "idle"

C27_AccumulateDelivers ==
    pipe.pc # "none" =>
       /\ pipe.sent = pipe.got \o pipe.buf
       /\ pipe.c = "closed" => (pipe.producer = "closed" /\ pipe.got = pipe.sent)

\* The loop is done with an author edge in this step, whether it took the
\* edge off the queue or had been waiting for GetAuthor.
AuthorStepDone ==
    /\ \/ run.pc = "idle" /\ queue # <<>> /\ Head(queue).kind = "authorEdge"
       \/ run.pc = "ret"
    /\ run'.pc = "idle" /\ run' # run
    /\ run'.edge.kind = "authorEdge"

\* The parent's entry before the step holds exactly these bytes.
CachedCopyIs(k, bytes) == cache[k].ok /\ cache[k].val = bytes

\* C28: a denormalization step that reaches the ETag test skips the write
\* (and, for a work, the authorEdges) exactly when the re-encoded parent is
\* byte-identical to the copy cached under the parent's key before the step;
\* otherwise the parent is written with the fuzzed TTL and, for a work, one
\* goroutine enqueues authorEdge(author, {workID}) for each of its authors.
C28_SkipIffIdentical ==
    [][/\ (EdgeStep("workEdge") /\ run'.etag # "none")
          => LET e == Head(queue)
                 k == WorkKey(e.parentID)
             IN IF run'.etag = "match"
                THEN /\ cache[k].ok
                     /\ cache'[k] = cache[k]
                     /\ tasks' = tasks
                ELSE /\ cache'[k].ok
                     /\ cache'[k].ttl \in fuzz(workTTL, 3, 2)
                     /\ ~CachedCopyIs(k, cache'[k].val)
                     /\ LET authors == cache'[k].val.authors
                        IN tasks' = Spawn(tasks, Enqueuer([i \in 1..Len(authors) |->
                                             Edge("authorEdge", authors[i], {e.parentID})]))
       /\ (AuthorStepDone /\ run'.etag # "none")
          => LET k == AuthorKey(run'.edge.parentID)
                 loaded == IF run.pc = "ret" THEN run.ret.bytes
                           ELSE Do(cache, flights, k, Background).ret.bytes
             IN IF run'.etag = "match"
                THEN /\ CachedCopyIs(k, loaded)
                     /\ cache'[k] = cache[k]
                     /\ tasks' = tasks
                ELSE /\ cache'[k].ok
                     /\ cache'[k].ttl \in fuzz(authorTTL, 3, 2)
                     /\ ~CachedCopyIs(k, cache'[k].val)
                     /\ tasks' = tasks]_vars

C30_SnapshotOnMiss ==
    [][\A a \in AuthorIDs :
          LET k == AuthorKey(a)
              seen == flights[k].seen
              fetched == GetterGetAuthor(cache, seen, up, AllOk, a).bytes
              last == IF seen[k].ok THEN seen[k].val ELSE fetched
              landed == flights[k].on /\ ~flights'[k].on
              written ==
                  /\ cache'[k].ok /\ cache'[k].val = fetched
                  /\ cache'[k].ttl \in fuzz(authorTTL, 3, 2)
                  /\ cache'[refreshAuthorKey(a)]
                       = [ok |-> TRUE, val |-> last, ttl |-> refreshingTTL]
          IN /\ \A p \in ClientIDs :
                   (/\ landed
                    /\ tasks[p].pc = "wait" /\ tasks[p].key = k
                    /\ tasks'[p].ret.err = "nil")
                   => /\ written
                      /\ tasks'[p].pc = "done"
                      /\ tasks'[p].ret.bytes = last
             /\ (/\ landed
                 /\ run.pc = "wait" /\ run.edge.parentID = a
                 /\ run'.ret.err = "nil")
                => /\ written
                   /\ run'.pc = "ret"
                   /\ run'.ret.bytes = last]_vars

\* A client's GetAuthor missed on an expired, denormalized copy and has
\* returned: the fetched document is under a1, and the client holds the
\* older bytes, which are the snapshot.
C30_Witness ==
    \E p \in ClientIDs :
       /\ tasks[p].pc = "done" /\ tasks[p].key = AuthorKey(1) /\ tasks[p].phase = "started"
       /\ tasks[p].ret.err = "nil"
       /\ cache[refreshAuthorKey(1)]
            = [ok |-> TRUE, val |-> tasks[p].ret.bytes, ttl |-> refreshingTTL]
       /\ Live(cache, AuthorKey(1))
       /\ cache[AuthorKey(1)].val # tasks[p].ret.bytes
       /\ ~cache[AuthorKey(1)].val.nl
       /\ tasks[p].ret.bytes # Missing
       /\ tasks[p].ret.bytes.nl
       /\ nexp = 1

\* Edition i of the list passes every validation, ref being the work ID the
\* editions are held to.
Passes(grBooks, loads, ref, i) ==
    LET w == grBooks[i]
    IN /\ Len(w.books) = 1
       /\ w.id = ref
       /\ Len(w.authors) > 0 /\ w.authors[1] \in loads
       /\ Len(w.books[1].contributors) > 0
       /\ w.books[1].contributors[1] = w.authors[1]

\* The goroutine is through: a b<id> entry exists exactly for the books of
\* the editions that pass, holding such an edition with the fuzzed edition
\* TTL, and the buffer holds one workEdge from ref to those books, or
\* nothing if there are none.
SavedAsValidated(ref) ==
    LET kept == {i \in 1..Len(save.grBooks) : Passes(save.grBooks, save.loads, ref, i)}
        ids == {save.grBooks[i].books[1].id : i \in kept}
    IN /\ \A b \in 1..2 :
             IF b \in ids
             THEN /\ save.c[BookKey(b)].ok
                  /\ save.c[BookKey(b)].ttl \in fuzz(editionTTL, 2, 1)
                  /\ \E i \in kept : /\ save.grBooks[i].books[1].id = b
                                     /\ save.c[BookKey(b)].val = save.grBooks[i]
             ELSE ~save.c[BookKey(b)].ok
       /\ save.queue = IF ids = {} THEN <<>> ELSE <<Edge("workEdge", ref, ids)>>

\* The work ID of the first edition.
FirstEdition(grBooks) == IF grBooks = <<>> THEN 0 ELSE grBooks[1].id
\* The work ID of the first edition that wraps exactly one book.
FirstSingle(grBooks) ==
    LET at == {i \in 1..Len(grBooks) : Len(grBooks[i].books) = 1}
    IN IF at = {} THEN 0 ELSE grBooks[CHOOSE i \in at : \A j \in at : i <= j].id

\* C31 as stated: the editions are held to the work ID of the first edition.
C31_SavedFirstEdition ==
    save.pc = "done" => SavedAsValidated(FirstEdition(save.grBooks))

\* C31: the editions are held to the work ID of the first edition that wraps
\* exactly one book.
C31_SavedFirstSingle ==
    save.pc = "done" => SavedAsValidated(FirstSingle(save.grBooks))

\* Two editions of work 1 by author 1, who loads, were kept and the workEdge
\* with both is in the buffer.
C31_Witness ==
    /\ save.pc = "done"
    /\ Len(save.grBooks) = 2
    /\ save.c[BookKey(1)].ok /\ save.c[BookKey(2)].ok
    /\ save.queue = <<Edge("workEdge", 1, {1, 2})>>

\* C32: every operation enters the group on the cache key of what it
\* serves; callers waiting on one flight are calls of one operation with
\* one argument; and a caller that has returned got the result of its own
\* operation and argument, of the type it asserts.
C32_OwnFlight ==
    group.pc = "up" =>
       /\ \A op \in Ops : \A arg \in Args(op) : groupKey(op, arg) = cacheKey(op, arg)
       /\ \A p \in 1..MaxCallers :
             LET call == group.calls[p]
             IN /\ call.pc = "wait"
                   => \E f \in group.flights :
                         f.key = call.key /\ f.op = call.op /\ f.arg = call.arg
                /\ call.pc # "panic"
                /\ call.pc = "done" => call.from = <<call.op, call.arg>>

\* The works of an author document (none if the bytes are no document).
WorksIn(bytes) ==
    IF Decodable(bytes) THEN {bytes.works[i].id : i \in 1..Len(bytes.works)} ELSE {}

\* C33: when refreshDone deletes REFRESHING<id>, the entry a<id> holds a
\* document with every work the snapshot held.
C33_RefreshKeepsWorks ==
    [][\A a \in AuthorIDs :
          (cache[refreshAuthorKey(a)].ok /\ ~cache'[refreshAuthorKey(a)].ok)
          => /\ cache'[AuthorKey(a)].ok
             /\ WorksIn(cache[refreshAuthorKey(a)].val)
                  \subseteq WorksIn(cache'[AuthorKey(a)].val)]_vars

\* C34: while REFRESHING<id> is there, an authorEdge step that finds under
\* a<id> a document written by an earlier authorEdge step (an encoded one;
\* getAuthor's own write at the start of the refresh is a marshalled one)
\* leaves every work of that document in a<id>.
C34_WorksAccumulate ==
    [][\A a \in AuthorIDs :
          (/\ AuthorStepDone /\ run'.edge.parentID = a
           /\ cache[refreshAuthorKey(a)].ok
           /\ cache[AuthorKey(a)].ok /\ cache[AuthorKey(a)].val.nl)
          => /\ cache'[AuthorKey(a)].ok
             /\ WorksIn(cache[AuthorKey(a)].val) \subseteq WorksIn(cache'[AuthorKey(a)].val)]_vars

\* The editions of a work document (none if the bytes are no document).
BooksIn(bytes) ==
    IF Decodable(bytes) THEN {bytes.books[i] : i \in 1..Len(bytes.books)} ELSE {}

\* C35: when a GetWork flight lands while w<id> holds a live document that
\* denormalizeEditions wrote (an encoded one), every edition of that
\* document is still in w<id> afterwards.
C35_EditionsStay ==
    [][\A w \in WorkIDs :
          (/\ flights[WorkKey(w)].on /\ ~flights'[WorkKey(w)].on
           /\ Live(cache, WorkKey(w)) /\ cache[WorkKey(w)].val.nl)
          => /\ cache'[WorkKey(w)].ok
             /\ BooksIn(cache[WorkKey(w)].val) \subseteq BooksIn(cache'[WorkKey(w)].val)]_vars

\* C36: no GetWork or GetAuthor call has returned the MISSING sentinel
\* without an error, to a client, a goroutine or the denormalization loop,
\* and no REFRESHING<id> snapshot is the MISSING sentinel.
C36_NeverMissing ==
    /\ \A p \in Procs :
          (tasks[p].key[1] \in {"w", "a"} /\ tasks[p].ret.err = "nil")
          => tasks[p].ret.bytes # Missing
    /\ run.ret.err = "nil" => run.ret.bytes # Missing
    /\ \A a \in AuthorIDs :
          cache[refreshAuthorKey(a)].ok => cache[refreshAuthorKey(a)].val # Missing

\* C37: the denorm-waiting gauge is the number of children buffered in the
\* queue or belonging to the edge in progress; it is never negative; and it
\* is zero only when no edge is buffered or in progress.
C37_GaugeCounts ==
    GaugeUp =>
       /\ gauge.n = Children(gauge.queue) + Cardinality(gauge.cur.childIDs)
       /\ gauge.n >= 0
       /\ gauge.n = 0 => (gauge.queue = <<>> /\ gauge.cur = NoEdge)

\* Something is left to do for Run or the forwarding goroutines.
GaugePending ==
    \/ gauge.senders # {}
    \/ gauge.ch # NoEdge
    \/ gauge.fwd = "count"
    \/ gauge.queue # <<>>
    \/ gauge.cur # NoEdge

\* C40: Run is never in a send on denormC (every enqueue is made by a
\* goroutine of its own); with an edge in hand it can finish the body of its
\* loop, and with an edge buffered it can pop; and while anything is left to
\* do, Run or one of the forwarding goroutines can take a step.
C40_RunNeverBlocks ==
    GaugeUp =>
       /\ ~RunSends
       /\ gauge.cur # NoEdge => ENABLED RunYields
       /\ (gauge.cur = NoEdge /\ gauge.queue # <<>>) => ENABLED RunPops
       /\ GaugePending => ENABLED (Relay \/ GroupPush \/ GroupCount \/ RunPops \/ RunYields)

\* Run processed a work edge that changed the work and is back at pop, with
\* nothing buffered, while the goroutine it started is still in its send.
C40_Witness ==
    /\ GaugeUp
    /\ gauge.sent = 1
    /\ gauge.senders = {Send("go", Edge("authorEdge", 2, {1}))}
    /\ gauge.cur = NoEdge /\ gauge.queue = <<>>

\* The refresh tasks of an author that have not ended.
RefreshTasks(a) ==
    {p \in TaskIDs : tasks[p].kind = "authorRefresh" /\ tasks[p].subj = a}

\* With a real persister, while REFRESHING<id> exists no flight of
\* GetAuthor(id) is on or starts (so the Getter is not asked for the author),
\* no GetAuthor call starts a refresh task for the author, and at most one
\* such task is running.
GetAuthorStartsNoSecondRefresh ==
    [][\A a \in AuthorIDs :
          (persister /\ cache[refreshAuthorKey(a)].ok)
          => /\ ~flights[AuthorKey(a)].on
             /\ ~flights'[AuthorKey(a)].on
             /\ RefreshTasks(a)' \subseteq RefreshTasks(a)
             /\ Cardinality(RefreshTasks(a)) <= 1]_vars

\* C38: with a real persister, at most one refresh of an author is in
\* flight at any time (submitted and its refreshDone not yet processed),
\* whoever submitted it.
C38_OneRefreshTask ==
    \A a \in RefreshIDs : Count(refreshes, a) <= 1

\* C39: when the refresh task of an author ends, by its return or by a
\* recovered panic, the goroutine that enqueues its edges is started, and
\* the last edge it enqueues is the author's refreshDone.
C39_RefreshDoneAlways ==
    [][\A p \in TaskIDs, a \in AuthorIDs :
          (/\ tasks[p].kind = "authorRefresh" /\ tasks[p].subj = a
           /\ tasks'[p].kind # "authorRefresh")
          => /\ tasks'[p].kind = "enqueue"
             /\ tasks'[p].edges # <<>>
             /\ tasks'[p].edges[Len(tasks'[p].edges)] = Edge("refreshDone", a, {})]_vars

====
